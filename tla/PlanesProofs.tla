---------------------------- MODULE PlanesProofs ----------------------------
(***************************************************************************)
(* Proofs about Planes, for any hosts, configurations, runs and faults: a  *)
(* run leaves the services that are as configured alone, and a failure on  *)
(* one host leaves no other host half done; a run that succeeds has        *)
(* brought everything up as configured, and one without faults fails only  *)
(* for a reason that lasts.                                                *)
(*                                                                         *)
(* The first two are about one calm host: one on which no call failed,     *)
(* no run was killed at work, and no role is listed twice.  On it a single *)
(* goroutine is at work at a time (OneGoroutine), so what a goroutine has  *)
(* found out about its container still holds at its next call: the state   *)
(* of the container follows from the step (StepOK), every other service is *)
(* settled, and none of the calls can be refused half way.                 *)
(*                                                                         *)
(* The others (UpInv) are about any host, whatever earlier runs left on it *)
(* and however many goroutines are at work there: a service one of them    *)
(* has been at runs as configured, or another is about to start or to      *)
(* replace it.                                                             *)
(***************************************************************************)
EXTENDS Planes, FiniteSetTheorems, SequenceTheorems, TLAPS

States == {"absent", "created", "running", "exited"}
Cmds == SUBSET (Hosts \cup (Hosts \X {2}))
Containers == [st : States, version : Nat, cmd : Cmds]

Stages == {"control", "worker_etcd", "worker_control", "worker_worker"}

\* What a goroutine may have left to do, in the two kinds of stages.
ControlTails ==
    {<<"remove_nginx", "sidekick", "api", "controller", "scheduler">>,
     <<"sidekick", "api", "controller", "scheduler">>,
     <<"api", "controller", "scheduler">>,
     <<"controller", "scheduler">>,
     <<"scheduler">>}
WorkerTails ==
    {<<"nginx", "sidekick", "kubelet", "kubeproxy">>,
     <<"sidekick", "kubelet", "kubeproxy">>,
     <<"kubelet", "kubeproxy">>,
     <<"kubeproxy">>}
Plan(stage) == IF stage = "control" THEN ControlTails ELSE WorkerTails

\* The steps of an operation.
RunSteps == {"inspect", "restart", "restart_old", "compare", "list", "stop",
             "wait", "rename", "roll_create", "create", "start", "roll_start",
             "drop", "check"}
StepsOf(op) ==
    IF op = "remove_nginx" THEN {"rm_inspect", "rm_stop", "rm"}
    ELSE IF op = "sidekick" THEN {"sidekick_list", "sidekick_create"}
    ELSE RunSteps

Ops == Services \cup {"remove_nginx"}
Steps == RunSteps \cup {"rm_inspect", "rm_stop", "rm", "sidekick_list",
                        "sidekick_create", "done"}
Tasks == [ops : ControlTails \cup WorkerTails \cup {<<>>}, step : Steps]

TypeInv ==
    /\ ctr \in [Hosts -> [Names -> Containers]]
    /\ conf.version \in Nat
    /\ pc \in Stages \cup {"idle", "parse"}
    /\ task \in [Entries -> Tasks]
    /\ raced \subseteq Hosts /\ struck \subseteq Hosts /\ faults \in Nat

\* Goroutines exist only in a stage, are members of its errgroup and follow
\* its plan; a role listed twice is known to race.
TaskInv ==
    /\ \A e \in AtWork : /\ pc \in Stages /\ e \in Members(pc)
                         /\ task[e].ops \in Plan(pc)
                         /\ task[e].step \in StepsOf(Head(task[e].ops))
    /\ pc \in Stages =>
          \A h \in Hosts : \A r \in Roles : <<h, r, 2>> \in Members(pc) => h \in raced

Calm == Hosts \ (struck \cup raced)

\* Nothing is going on with service s of h.
Settled(h, s) ==
    ctr[h][s].st \in {"absent", "running"} /\ ctr[h][OldName[s]].st = "absent"

\* What the container of the service is like at each step, on a calm host.
OwnStates(step) ==
    IF step \in {"create", "roll_create"} THEN {"absent"}
    ELSE IF step \in {"start", "roll_start"} THEN {"created"}
    ELSE IF step \in {"compare", "list", "stop", "drop", "check", "rm_stop"}
         THEN {"running"}
    ELSE IF step \in {"wait", "rename", "rm"} THEN {"exited"}
    ELSE IF step \in {"restart", "restart_old"} THEN {}
    ELSE {"absent", "running"}
Rolling == {"roll_create", "roll_start", "drop"}

StepOK(e) ==
    Svc(e) \in Running =>
        /\ Ctr(e).st \in OwnStates(task[e].step)
        /\ Parked(e).st = IF task[e].step \in Rolling THEN "exited" ELSE "absent"
        /\ task[e].step \in {"list", "stop"} => ~AsWanted(e[1], Svc(e))
        /\ Svc(e) # "nginx" => ctr[e[1]]["sidekick"].st # "absent"

CalmAt(h) ==
    /\ \A s \in Running : (\A e \in AtWork : e[1] = h => Svc(e) # s) => Settled(h, s)
    /\ \A e \in AtWork : e[1] = h => StepOK(e)

CalmInv == \A h \in Calm : CalmAt(h)

\* The inductive invariant.
PlanesInv == TypeInv /\ TaskInv /\ CalmInv

-----------------------------------------------------------------------------
(* Names, entries and plans.                                                *)

LEMMA NameFacts ==
    /\ \A s \in Running : OldName[s] \in Names /\ OldName[s] \notin Services
    /\ \A s, t \in Running : OldName[s] = OldName[t] => s = t
    /\ Running \subseteq Names /\ "sidekick" \in Names
    /\ Services = Running \cup {"sidekick"} /\ "sidekick" \notin Running
    /\ "nginx" \in Running
BY DEF OldName, Names, Services, Running

LEMMA EntryFacts ==
    ASSUME NEW e \in Entries
    PROVE  /\ e[1] \in Hosts /\ e[2] \in Roles /\ e[3] \in {1, 2}
           /\ e = <<e[1], e[2], e[3]>>
BY DEF Entries

\* The tails of the plans.
LEMMA TailFacts ==
    /\ Tail(<<"remove_nginx", "sidekick", "api", "controller", "scheduler">>) =
          <<"sidekick", "api", "controller", "scheduler">>
    /\ Tail(<<"sidekick", "api", "controller", "scheduler">>) =
          <<"api", "controller", "scheduler">>
    /\ Tail(<<"api", "controller", "scheduler">>) =
          <<"controller", "scheduler">>
    /\ Tail(<<"controller", "scheduler">>) = <<"scheduler">>
    /\ Tail(<<"scheduler">>) = <<>>
    /\ Tail(<<"nginx", "sidekick", "kubelet", "kubeproxy">>) =
          <<"sidekick", "kubelet", "kubeproxy">>
    /\ Tail(<<"sidekick", "kubelet", "kubeproxy">>) =
          <<"kubelet", "kubeproxy">>
    /\ Tail(<<"kubelet", "kubeproxy">>) = <<"kubeproxy">>
    /\ Tail(<<"kubeproxy">>) = <<>>
<1>1. Tail(<<"remove_nginx", "sidekick", "api", "controller", "scheduler">>) =
        <<"sidekick", "api", "controller", "scheduler">>
  OBVIOUS
<1>2. Tail(<<"sidekick", "api", "controller", "scheduler">>) =
        <<"api", "controller", "scheduler">>
  OBVIOUS
<1>3. Tail(<<"api", "controller", "scheduler">>) =
        <<"controller", "scheduler">>
  OBVIOUS
<1>4. Tail(<<"controller", "scheduler">>) = <<"scheduler">>
  OBVIOUS
<1>5. Tail(<<"scheduler">>) = <<>>
  OBVIOUS
<1>6. Tail(<<"nginx", "sidekick", "kubelet", "kubeproxy">>) =
        <<"sidekick", "kubelet", "kubeproxy">>
  OBVIOUS
<1>7. Tail(<<"sidekick", "kubelet", "kubeproxy">>) = <<"kubelet", "kubeproxy">>
  OBVIOUS
<1>8. Tail(<<"kubelet", "kubeproxy">>) = <<"kubeproxy">>
  OBVIOUS
<1>9. Tail(<<"kubeproxy">>) = <<>>
  OBVIOUS
<1> QED
  BY <1>1, <1>2, <1>3, <1>4, <1>5, <1>6, <1>7, <1>8, <1>9

LEMMA HeadFacts ==
    /\ Head(<<"remove_nginx", "sidekick", "api", "controller", "scheduler">>) = "remove_nginx"
    /\ <<"remove_nginx", "sidekick", "api", "controller", "scheduler">> # <<>>
    /\ Head(<<"sidekick", "api", "controller", "scheduler">>) = "sidekick"
    /\ <<"sidekick", "api", "controller", "scheduler">> # <<>>
    /\ Head(<<"api", "controller", "scheduler">>) = "api"
    /\ <<"api", "controller", "scheduler">> # <<>>
    /\ Head(<<"controller", "scheduler">>) = "controller"
    /\ <<"controller", "scheduler">> # <<>>
    /\ Head(<<"scheduler">>) = "scheduler" /\ <<"scheduler">> # <<>>
    /\ Head(<<"nginx", "sidekick", "kubelet", "kubeproxy">>) = "nginx"
    /\ <<"nginx", "sidekick", "kubelet", "kubeproxy">> # <<>>
    /\ Head(<<"sidekick", "kubelet", "kubeproxy">>) = "sidekick"
    /\ <<"sidekick", "kubelet", "kubeproxy">> # <<>>
    /\ Head(<<"kubelet", "kubeproxy">>) = "kubelet"
    /\ <<"kubelet", "kubeproxy">> # <<>>
    /\ Head(<<"kubeproxy">>) = "kubeproxy" /\ <<"kubeproxy">> # <<>>
<1>1. /\ Head(<<"remove_nginx", "sidekick", "api", "controller", "scheduler">>) = "remove_nginx"
      /\ <<"remove_nginx", "sidekick", "api", "controller", "scheduler">> # <<>>
  OBVIOUS
<1>2. /\ Head(<<"sidekick", "api", "controller", "scheduler">>) = "sidekick"
      /\ <<"sidekick", "api", "controller", "scheduler">> # <<>>
  OBVIOUS
<1>3. /\ Head(<<"api", "controller", "scheduler">>) = "api"
      /\ <<"api", "controller", "scheduler">> # <<>>
  OBVIOUS
<1>4. /\ Head(<<"controller", "scheduler">>) = "controller"
      /\ <<"controller", "scheduler">> # <<>>
  OBVIOUS
<1>5. Head(<<"scheduler">>) = "scheduler" /\ <<"scheduler">> # <<>>
  OBVIOUS
<1>6. /\ Head(<<"nginx", "sidekick", "kubelet", "kubeproxy">>) = "nginx"
      /\ <<"nginx", "sidekick", "kubelet", "kubeproxy">> # <<>>
  OBVIOUS
<1>7. /\ Head(<<"sidekick", "kubelet", "kubeproxy">>) = "sidekick"
      /\ <<"sidekick", "kubelet", "kubeproxy">> # <<>>
  OBVIOUS
<1>8. /\ Head(<<"kubelet", "kubeproxy">>) = "kubelet"
      /\ <<"kubelet", "kubeproxy">> # <<>>
  OBVIOUS
<1>9. Head(<<"kubeproxy">>) = "kubeproxy" /\ <<"kubeproxy">> # <<>>
  OBVIOUS
<1> QED
  BY <1>1, <1>2, <1>3, <1>4, <1>5, <1>6, <1>7, <1>8, <1>9

LEMMA PlanFacts ==
    ASSUME NEW p, NEW ops \in Plan(p)
    PROVE  /\ ops # <<>> /\ ops \in ControlTails \cup WorkerTails
           /\ Tail(ops) \in Plan(p) \cup {<<>>}
           /\ Head(ops) \in Running \cup {"sidekick", "remove_nginx"}
           /\ Head(ops) = "remove_nginx" => p = "control"
           /\ Tail(ops) # <<>> =>
                /\ Head(Tail(ops)) \notin {"remove_nginx", "nginx", Head(ops)}
                /\ Head(Tail(ops)) # "sidekick" =>
                      Head(ops) \in {"sidekick"} \cup (Running \ {"nginx"})
<1>1. CASE p = "control"
  <2>1. Plan(p) = ControlTails
    BY <1>1 DEF Plan
  <2>2. CASE ops = <<"remove_nginx", "sidekick", "api", "controller", "scheduler">>
    <3>1. /\ ops # <<>> /\ ops \in ControlTails
          /\ Tail(ops) = <<"sidekick", "api", "controller", "scheduler">> /\ Head(ops) = "remove_nginx"
          /\ Head(Tail(ops)) = "sidekick" /\ Tail(ops) \in ControlTails
      BY <2>1, <2>2, TailFacts, HeadFacts DEF ControlTails
    <3> QED
      BY <1>1, <2>1, <3>1 DEF Running
  <2>3. CASE ops = <<"sidekick", "api", "controller", "scheduler">>
    <3>1. /\ ops # <<>> /\ ops \in ControlTails
          /\ Tail(ops) = <<"api", "controller", "scheduler">> /\ Head(ops) = "sidekick"
          /\ Head(Tail(ops)) = "api" /\ Tail(ops) \in ControlTails
      BY <2>1, <2>3, TailFacts, HeadFacts DEF ControlTails
    <3> QED
      BY <1>1, <2>1, <3>1 DEF Running
  <2>4. CASE ops = <<"api", "controller", "scheduler">>
    <3>1. /\ ops # <<>> /\ ops \in ControlTails
          /\ Tail(ops) = <<"controller", "scheduler">> /\ Head(ops) = "api"
          /\ Head(Tail(ops)) = "controller" /\ Tail(ops) \in ControlTails
      BY <2>1, <2>4, TailFacts, HeadFacts DEF ControlTails
    <3> QED
      BY <1>1, <2>1, <3>1 DEF Running
  <2>5. CASE ops = <<"controller", "scheduler">>
    <3>1. /\ ops # <<>> /\ ops \in ControlTails
          /\ Tail(ops) = <<"scheduler">> /\ Head(ops) = "controller"
          /\ Head(Tail(ops)) = "scheduler" /\ Tail(ops) \in ControlTails
      BY <2>1, <2>5, TailFacts, HeadFacts DEF ControlTails
    <3> QED
      BY <1>1, <2>1, <3>1 DEF Running
  <2>6. CASE ops = <<"scheduler">>
    <3>1. /\ ops # <<>> /\ ops \in ControlTails
          /\ Tail(ops) = <<>> /\ Head(ops) = "scheduler"
      BY <2>1, <2>6, TailFacts, HeadFacts DEF ControlTails
    <3> QED
      BY <1>1, <2>1, <3>1 DEF Running
  <2> QED
    BY <2>1, <2>2, <2>3, <2>4, <2>5, <2>6 DEF ControlTails
<1>2. CASE p # "control"
  <2>1. Plan(p) = WorkerTails
    BY <1>2 DEF Plan
  <2>2. CASE ops = <<"nginx", "sidekick", "kubelet", "kubeproxy">>
    <3>1. /\ ops # <<>> /\ ops \in WorkerTails
          /\ Tail(ops) = <<"sidekick", "kubelet", "kubeproxy">> /\ Head(ops) = "nginx"
          /\ Head(Tail(ops)) = "sidekick" /\ Tail(ops) \in WorkerTails
      BY <2>1, <2>2, TailFacts, HeadFacts DEF WorkerTails
    <3> QED
      BY <1>2, <2>1, <3>1 DEF Running
  <2>3. CASE ops = <<"sidekick", "kubelet", "kubeproxy">>
    <3>1. /\ ops # <<>> /\ ops \in WorkerTails
          /\ Tail(ops) = <<"kubelet", "kubeproxy">> /\ Head(ops) = "sidekick"
          /\ Head(Tail(ops)) = "kubelet" /\ Tail(ops) \in WorkerTails
      BY <2>1, <2>3, TailFacts, HeadFacts DEF WorkerTails
    <3> QED
      BY <1>2, <2>1, <3>1 DEF Running
  <2>4. CASE ops = <<"kubelet", "kubeproxy">>
    <3>1. /\ ops # <<>> /\ ops \in WorkerTails
          /\ Tail(ops) = <<"kubeproxy">> /\ Head(ops) = "kubelet"
          /\ Head(Tail(ops)) = "kubeproxy" /\ Tail(ops) \in WorkerTails
      BY <2>1, <2>4, TailFacts, HeadFacts DEF WorkerTails
    <3> QED
      BY <1>2, <2>1, <3>1 DEF Running
  <2>5. CASE ops = <<"kubeproxy">>
    <3>1. /\ ops # <<>> /\ ops \in WorkerTails
          /\ Tail(ops) = <<>> /\ Head(ops) = "kubeproxy"
      BY <2>1, <2>5, TailFacts, HeadFacts DEF WorkerTails
    <3> QED
      BY <1>2, <2>1, <3>1 DEF Running
  <2> QED
    BY <2>1, <2>2, <2>3, <2>4, <2>5 DEF WorkerTails
<1> QED
  BY <1>1, <1>2

\* The first step of what is left to do.
LEMMA BeginFacts ==
    /\ Begin(<<>>) = Done
    /\ \A ops : ops # <<>> =>
          /\ Begin(ops).ops = ops
          /\ Begin(ops) = [ops |-> ops, step |-> Begin(ops).step]
          /\ Begin(ops).step = IF Head(ops) = "remove_nginx" THEN "rm_inspect"
                               ELSE IF Head(ops) = "sidekick" THEN "sidekick_list"
                               ELSE "inspect"
BY DEF Begin, Done

LEMMA DoneType == Done \in Tasks /\ Done.ops = <<>>
<1>1. "done" \in Steps
  BY DEF Steps
<1> QED
  BY <1>1 DEF Done, Tasks

LEMMA BeginType ==
    ASSUME NEW ops \in ControlTails \cup WorkerTails, ops # <<>>
    PROVE  /\ Begin(ops) \in Tasks /\ Begin(ops).ops = ops /\ Begin(ops) # Done
           /\ Begin(ops).step \in StepsOf(Head(ops))
<1>1. Begin(ops).ops = ops /\ Begin(ops) # Done
  BY BeginFacts DEF Done
<1>2. Begin(ops).step \in Steps
  BY BeginFacts DEF Steps, RunSteps
<1>3. Begin(ops) \in Tasks
  BY <1>2, BeginFacts DEF Tasks
<1>4. Begin(ops).step \in StepsOf(Head(ops))
  BY BeginFacts DEF StepsOf, RunSteps
<1> QED
  BY <1>1, <1>3, <1>4

LEMMA ControlStart ==
    \A h : ControlOps(h) \in
              {<<"remove_nginx", "sidekick", "api", "controller", "scheduler">>,
               <<"sidekick", "api", "controller", "scheduler">>}
<1>1. <<"remove_nginx">> \o <<"sidekick", "api", "controller", "scheduler">> =
        <<"remove_nginx", "sidekick", "api", "controller", "scheduler">>
  <2> DEFINE a == <<"remove_nginx">>
             b == <<"sidekick", "api", "controller", "scheduler">>
             c == <<"remove_nginx", "sidekick", "api", "controller", "scheduler">>
  <2>1. a \in Seq(Ops) /\ b \in Seq(Ops) /\ c \in Seq(Ops)
        /\ Len(a) = 1 /\ Len(b) = 4 /\ Len(c) = 5
    <3>1. a \in Seq(Ops)
      BY DEF Ops, Services, Running
    <3>2. b \in Seq(Ops)
      BY DEF Ops, Services, Running
    <3>3. c \in Seq(Ops)
      BY DEF Ops, Services, Running
    <3>4. Len(a) = 1
      OBVIOUS
    <3>5. Len(b) = 4
      OBVIOUS
    <3>6. Len(c) = 5
      OBVIOUS
    <3> QED
      BY <3>1, <3>2, <3>3, <3>4, <3>5, <3>6
  <2>2. a \o b \in Seq(Ops) /\ Len(a \o b) = 5
        /\ \A i \in 1 .. 5 : (a \o b)[i] = IF i <= 1 THEN a[i] ELSE b[i - 1]
    BY <2>1, ConcatProperties
  <2>3. \A i \in 1 .. 5 : (a \o b)[i] = c[i]
    BY <2>2
  <2> HIDE DEF a, b, c
  <2>4. a \o b = c
    BY <2>1, <2>2, <2>3, SeqEqual
  <2> QED
    BY <2>4 DEF a, b, c
<1>2. <<>> \o <<"sidekick", "api", "controller", "scheduler">> =
        <<"sidekick", "api", "controller", "scheduler">>
  OBVIOUS
<1> QED
  BY <1>1, <1>2 DEF ControlOps

LEMMA ControlPlan == \A h : ControlOps(h) \in ControlTails
BY ControlStart DEF ControlTails

LEMMA WorkerStart ==
    \A h : WorkerOps(h) \in {<<"nginx", "sidekick", "kubelet", "kubeproxy">>,
                             <<"sidekick", "kubelet", "kubeproxy">>}
<1>1. <<"nginx">> \o <<"sidekick", "kubelet", "kubeproxy">> =
        <<"nginx", "sidekick", "kubelet", "kubeproxy">>
  <2> DEFINE a == <<"nginx">>
             b == <<"sidekick", "kubelet", "kubeproxy">>
             c == <<"nginx", "sidekick", "kubelet", "kubeproxy">>
  <2>1. a \in Seq(Ops) /\ b \in Seq(Ops) /\ c \in Seq(Ops)
        /\ Len(a) = 1 /\ Len(b) = 3 /\ Len(c) = 4
    <3>1. a \in Seq(Ops)
      BY DEF Ops, Services, Running
    <3>2. b \in Seq(Ops)
      BY DEF Ops, Services, Running
    <3>3. c \in Seq(Ops)
      BY DEF Ops, Services, Running
    <3>4. Len(a) = 1
      OBVIOUS
    <3>5. Len(b) = 3
      OBVIOUS
    <3>6. Len(c) = 4
      OBVIOUS
    <3> QED
      BY <3>1, <3>2, <3>3, <3>4, <3>5, <3>6
  <2>2. a \o b \in Seq(Ops) /\ Len(a \o b) = 4
        /\ \A i \in 1 .. 4 : (a \o b)[i] = IF i <= 1 THEN a[i] ELSE b[i - 1]
    BY <2>1, ConcatProperties
  <2>3. \A i \in 1 .. 4 : (a \o b)[i] = c[i]
    BY <2>2
  <2> HIDE DEF a, b, c
  <2>4. a \o b = c
    BY <2>1, <2>2, <2>3, SeqEqual
  <2> QED
    BY <2>4 DEF a, b, c
<1>2. <<>> \o <<"sidekick", "kubelet", "kubeproxy">> =
        <<"sidekick", "kubelet", "kubeproxy">>
  OBVIOUS
<1> QED
  BY <1>1, <1>2 DEF WorkerOps

LEMMA WorkerPlan == \A h : WorkerOps(h) \in WorkerTails
BY WorkerStart DEF WorkerTails

LEMMA StartHeads ==
    /\ \A h : Head(ControlOps(h)) \in {"sidekick", "remove_nginx"}
    /\ \A h : Head(WorkerOps(h)) \in {"sidekick", "nginx"}
BY HeadFacts, ControlStart, WorkerStart

\* A host in a stage's errgroup has the stage's role.
LEMMA MemberRole ==
    ASSUME NEW e \in Members("control") PROVE  Is(conf, e[1], "controlplane")
<1>1. e \in Entries /\ e[2] = "controlplane" /\ e[3] <= Times(conf, e[2])[e[1]]
  BY DEF Members
<1>2. Times(conf, "controlplane")[e[1]] =
        Cardinality({i \in DOMAIN conf.roles[e[1]] : conf.roles[e[1]][i] = "controlplane"})
  BY <1>1, EntryFacts DEF Times
<1>3. SUFFICES ASSUME ~Is(conf, e[1], "controlplane") PROVE  FALSE
  OBVIOUS
<1>4. {i \in DOMAIN conf.roles[e[1]] : conf.roles[e[1]][i] = "controlplane"} = {}
  BY <1>3 DEF Is
<1>5. Times(conf, e[2])[e[1]] = 0
  BY <1>1, <1>2, <1>4, FS_EmptySet
<1> QED
  BY <1>1, <1>5, EntryFacts

LEMMA MemberFacts ==
    ASSUME NEW p \in Stages
    PROVE  \E r \in Roles : \A e \in Members(p) : e \in Entries /\ e[2] = r
BY DEF Stages, Members, Roles

\* What the goroutine of an entry works on.
LEMMA WorkFacts ==
    ASSUME TypeInv, TaskInv, NEW e \in AtWork
    PROVE  /\ e \in Entries /\ e[1] \in Hosts
           /\ pc \in Stages /\ e \in Members(pc)
           /\ task[e] \in Tasks /\ task[e].ops \in Plan(pc) /\ task[e].ops # <<>>
           /\ Svc(e) \in Services /\ Svc(e) \in Names
           /\ Head(task[e].ops) \in Running \cup {"sidekick", "remove_nginx"}
           /\ task[e].step \in StepsOf(Head(task[e].ops))
           /\ Ctr(e) \in Containers
<1>1. /\ e \in Entries /\ pc \in Stages /\ e \in Members(pc)
      /\ task[e].ops \in Plan(pc) /\ task[e] \in Tasks
      /\ task[e].step \in StepsOf(Head(task[e].ops))
  BY DEF AtWork, TypeInv, TaskInv
<1>2. e[1] \in Hosts /\ task[e].ops # <<>>
      /\ Head(task[e].ops) \in Running \cup {"sidekick", "remove_nginx"}
  BY <1>1, EntryFacts, PlanFacts
<1>3. Svc(e) \in Services /\ Svc(e) \in Names
  BY <1>2, NameFacts DEF Svc
<1>4. Ctr(e) \in Containers
  BY <1>2, <1>3 DEF Ctr, TypeInv
<1> QED
  BY <1>1, <1>2, <1>3, <1>4

\* A host where no role is listed twice has one goroutine at a time.
LEMMA OneGoroutine ==
    ASSUME TypeInv, TaskInv, NEW e \in AtWork, NEW o \in AtWork,
           e[1] = o[1], e[1] \notin raced
    PROVE  o = e
<1>1. PICK r \in Roles : \A x \in Members(pc) : x \in Entries /\ x[2] = r
  BY WorkFacts, MemberFacts
<1>2. /\ e \in Members(pc) /\ o \in Members(pc) /\ e[2] = r /\ o[2] = r
      /\ e = <<e[1], r, e[3]>> /\ o = <<e[1], r, o[3]>>
      /\ e[3] \in {1, 2} /\ o[3] \in {1, 2} /\ e[1] \in Hosts /\ pc \in Stages
  BY <1>1, WorkFacts, EntryFacts
<1>3. e[3] = 1 /\ o[3] = 1
  BY <1>2 DEF TaskInv
<1> QED
  BY <1>2, <1>3

-----------------------------------------------------------------------------
(* Containers.                                                              *)

\* What replacing one container changes.
LEMMA PutFacts ==
    ASSUME NEW f \in [Hosts -> [Names -> Containers]], NEW h \in Hosts,
           NEW n \in Names, NEW v \in Containers
    PROVE  LET g == [f EXCEPT ![h][n] = v] IN
           /\ g \in [Hosts -> [Names -> Containers]]
           /\ \A k \in Hosts \ {h} : g[k] = f[k]
           /\ \A m \in Names \ {n} : g[h][m] = f[h][m]
           /\ g[h][n] = v
OBVIOUS

LEMMA WantType ==
    ASSUME TypeInv, NEW s \in Services
    PROVE  Want(s).version \in Nat /\ Want(s).cmd \in Cmds
<1>1. \A r : Listed(r) \in Cmds
  BY DEF Listed, Cmds
<1>2. {} \in Cmds
  BY DEF Cmds
<1> QED
  BY <1>1, <1>2 DEF TypeInv, Want, Services, Running, BuildKubeAPIConfig,
     BuildKubeControllerConfig, BuildSchedulerConfig, BuildKubeletConfig,
     BuildKubeproxyConfig, BuildNginxProxyConfig, BuildSidekickConfig

LEMMA CreateType ==
    ASSUME TypeInv, NEW s \in Services, NEW st \in States
    PROVE  Create(s, st) \in Containers /\ Create(s, st).st = st
BY WantType DEF Create, Containers

LEMMA WithState ==
    ASSUME NEW c \in Containers, NEW st \in States
    PROVE  [c EXCEPT !.st = st] \in Containers /\ [c EXCEPT !.st = st].st = st
BY DEF Containers

LEMMA NoContainerType == NoContainer \in Containers /\ NoContainer.st = "absent"
BY DEF NoContainer, Containers, States, Cmds

-----------------------------------------------------------------------------
(* One call of the goroutine of entry e.                                    *)

\* It stays at its operation, goes on to the next, or returns.
Stays(e) ==
    /\ task'[e] \in Tasks /\ task'[e].ops = task[e].ops
    /\ task'[e].step \in StepsOf(Head(task[e].ops))
Moves(e) == task'[e] = Begin(Tail(task[e].ops))
Quits(e) == task'[e] = Done

\* The container goroutine o is about to start is renamed by that of e.
Follows(e, o) ==
    /\ o \in AtWork /\ o[1] = e[1] /\ task[o].step = "restart"
    /\ task'[o] = [task[o] EXCEPT !.step = "restart_old"]

TaskFrame(e) ==
    /\ task' \in [Entries -> Tasks]
    /\ Stays(e) \/ Moves(e) \/ Quits(e)
    /\ \A o \in Entries \ {e} : task'[o] = task[o] \/ Follows(e, o)

\* Only its own service's containers change.
CtrFrame(e) ==
    /\ ctr' \in [Hosts -> [Names -> Containers]]
    /\ \A h \in Hosts \ {e[1]} : ctr'[h] = ctr[h]
    /\ \A n \in Names : \/ ctr'[e[1]][n] = ctr[e[1]][n]
                        \/ n = Svc(e)
                        \/ Svc(e) \in Running /\ n = OldName[Svc(e)]

Frame(e) ==
    /\ TaskFrame(e) /\ CtrFrame(e)
    /\ pc' = pc /\ conf' = conf /\ machine' = machine /\ raced' = raced
    /\ struck \subseteq struck' /\ struck' \subseteq Hosts

\* On a calm host: either the next step finds what it needs, or the service is
\* settled.
Ready(e) ==
    Svc(e) \in Running =>
        /\ ctr'[e[1]][Svc(e)].st \in OwnStates(task'[e].step)
        /\ ctr'[e[1]][OldName[Svc(e)]].st =
              IF task'[e].step \in Rolling THEN "exited" ELSE "absent"
        /\ task'[e].step \in {"list", "stop"} =>
              ctr'[e[1]] = ctr[e[1]] /\ ~AsWanted(e[1], Svc(e))
Over(e) ==
    /\ Svc(e) \in Running =>
          /\ ctr'[e[1]][Svc(e)].st \in {"absent", "running"}
          /\ ctr'[e[1]][OldName[Svc(e)]].st = "absent"
    /\ (Moves(e) /\ Svc(e) = "sidekick") => ctr'[e[1]]["sidekick"].st # "absent"
Good(e) == \/ Stays(e) /\ Ready(e)
           \/ (Moves(e) \/ Quits(e)) /\ Over(e)

\* A service that runs as configured is left alone.
Spares(e) ==
    (/\ Svc(e) \in Required(e[1])
     /\ Ctr(e).st = "running" /\ AsWanted(e[1], Svc(e)))
    => ctr'[e[1]][Svc(e)] = Ctr(e)

LEMMA StepsOfFacts ==
    /\ \A op : StepsOf(op) \subseteq Steps
    /\ \A op : op \notin {"remove_nginx", "sidekick"} => StepsOf(op) = RunSteps
    /\ StepsOf("remove_nginx") = {"rm_inspect", "rm_stop", "rm"}
    /\ StepsOf("sidekick") = {"sidekick_list", "sidekick_create"}
    /\ {"rm_inspect", "rm_stop", "rm", "sidekick_list", "sidekick_create"}
          \cap RunSteps = {}
BY DEF StepsOf, Steps, RunSteps

\* The steps tell what the operation is.
LEMMA RunOp ==
    ASSUME TypeInv, TaskInv, NEW e \in AtWork, task[e].step \in RunSteps
    PROVE  /\ Svc(e) \in Running /\ StepsOf(Head(task[e].ops)) = RunSteps
           /\ OldName[Svc(e)] \in Names /\ Parked(e) \in Containers
           /\ OldName[Svc(e)] # Svc(e)
<1>1. Head(task[e].ops) \notin {"remove_nginx", "sidekick"}
  BY WorkFacts, StepsOfFacts
<1>2. Svc(e) \in Running /\ StepsOf(Head(task[e].ops)) = RunSteps
  BY <1>1, WorkFacts, StepsOfFacts DEF Svc
<1>3. OldName[Svc(e)] \in Names /\ OldName[Svc(e)] # Svc(e)
  BY <1>2, NameFacts
<1>4. Parked(e) \in Containers
  BY <1>3, WorkFacts DEF Parked, TypeInv
<1> QED
  BY <1>2, <1>3, <1>4

LEMMA SideOp ==
    ASSUME TypeInv, TaskInv, NEW e \in AtWork,
           task[e].step \in {"sidekick_list", "sidekick_create"}
    PROVE  Svc(e) = "sidekick"
           /\ StepsOf(Head(task[e].ops)) = {"sidekick_list", "sidekick_create"}
<1>1. Head(task[e].ops) = "sidekick"
  BY WorkFacts, StepsOfFacts
<1> QED
  BY <1>1, StepsOfFacts DEF Svc

LEMMA RemoveOp ==
    ASSUME TypeInv, TaskInv, NEW e \in AtWork,
           task[e].step \in {"rm_inspect", "rm_stop", "rm"}
    PROVE  /\ Svc(e) = "nginx" /\ Is(conf, e[1], "controlplane")
           /\ StepsOf(Head(task[e].ops)) = {"rm_inspect", "rm_stop", "rm"}
<1>1. Head(task[e].ops) = "remove_nginx"
  BY WorkFacts, StepsOfFacts
<1>2. pc = "control" /\ e \in Members(pc)
  BY <1>1, WorkFacts, PlanFacts
<1>3. Is(conf, e[1], "controlplane")
  BY <1>2, MemberRole
<1> QED
  BY <1>1, <1>3, StepsOfFacts DEF Svc

LEMMA GotoFrame ==
    ASSUME TypeInv, TaskInv, NEW e \in AtWork,
           NEW st \in StepsOf(Head(task[e].ops)), Goto(e, st)
    PROVE  TaskFrame(e) /\ Stays(e) /\ task'[e].step = st /\ struck' = struck
<1>1. st \in Steps /\ e \in Entries /\ task[e] \in Tasks
  BY StepsOfFacts, WorkFacts
<1>2. task' = [task EXCEPT ![e].step = st] /\ struck' = struck
  BY DEF Goto
<1>3. task'[e] = [task[e] EXCEPT !.step = st]
  BY <1>1, <1>2 DEF TypeInv
<1>4. task'[e] \in Tasks /\ task'[e].ops = task[e].ops /\ task'[e].step = st
  BY <1>1, <1>3 DEF Tasks
<1>5. \A o \in Entries \ {e} : task'[o] = task[o]
  BY <1>1, <1>2 DEF TypeInv
<1>6. task' \in [Entries -> Tasks]
  BY <1>1, <1>2, <1>3, <1>4 DEF TypeInv
<1> QED
  BY <1>2, <1>4, <1>5, <1>6 DEF TaskFrame, Stays

LEMMA NextFrame ==
    ASSUME TypeInv, TaskInv, NEW e \in AtWork, NextOp(e)
    PROVE  TaskFrame(e) /\ Moves(e) /\ struck' = struck
<1>1. e \in Entries /\ task[e].ops \in Plan(pc)
  BY WorkFacts
<1>2. task' = [task EXCEPT ![e] = Begin(Tail(task[e].ops))] /\ struck' = struck
  BY DEF NextOp
<1>3. Tail(task[e].ops) \in Plan(pc) \cup {<<>>}
  BY <1>1, PlanFacts
<1>4. Begin(Tail(task[e].ops)) \in Tasks
  <2>1. CASE Tail(task[e].ops) = <<>>
    BY <2>1, BeginFacts, DoneType
  <2>2. CASE Tail(task[e].ops) # <<>>
    BY <1>3, <2>2, PlanFacts, BeginType
  <2> QED
    BY <2>1, <2>2
<1>5. task' \in [Entries -> Tasks] /\ Moves(e)
      /\ \A o \in Entries \ {e} : task'[o] = task[o]
  BY <1>1, <1>2, <1>4 DEF TypeInv, Moves
<1> QED
  BY <1>2, <1>5 DEF TaskFrame

LEMMA FailsFrame ==
    ASSUME TypeInv, TaskInv, NEW e \in AtWork, Fails(e)
    PROVE  TaskFrame(e) /\ Quits(e)
<1>1. e \in Entries /\ Done \in Tasks
  BY WorkFacts, DoneType
<1>2. task' = [task EXCEPT ![e] = Done]
  BY DEF Fails
<1> QED
  BY <1>1, <1>2 DEF TypeInv, TaskFrame, Quits

LEMMA RefusedFrame ==
    ASSUME TypeInv, TaskInv, NEW e \in AtWork, Refused(e)
    PROVE  TaskFrame(e) /\ Quits(e) /\ struck' = struck
BY FailsFrame DEF Refused

LEMMA RunDoneFrame ==
    ASSUME TypeInv, TaskInv, NEW e \in AtWork, task[e].step \in RunSteps,
           RunDone(e)
    PROVE  /\ TaskFrame(e) /\ struck' = struck
           /\ Moves(e) \/ (Stays(e) /\ task'[e].step = "check")
<1>1. "check" \in StepsOf(Head(task[e].ops))
  BY RunOp DEF RunSteps
<1> QED
  BY <1>1, NextFrame, GotoFrame DEF RunDone

LEMMA KeptFrame ==
    ASSUME TypeInv, Kept, NEW e \in AtWork
    PROVE  CtrFrame(e) /\ ctr' = ctr
BY DEF TypeInv, Kept, CtrFrame

LEMMA SetCtrFrame ==
    ASSUME TypeInv, TaskInv, NEW e \in AtWork, NEW new \in Containers,
           SetCtr(e, new)
    PROVE  /\ CtrFrame(e) /\ ctr'[e[1]][Svc(e)] = new
           /\ Svc(e) \in Running => ctr'[e[1]][OldName[Svc(e)]] = Parked(e)
<1>1. e[1] \in Hosts /\ Svc(e) \in Names
  BY WorkFacts
<1>2. ctr' = [ctr EXCEPT ![e[1]][Svc(e)] = new]
  BY DEF SetCtr
<1>3. /\ ctr' \in [Hosts -> [Names -> Containers]]
      /\ \A k \in Hosts \ {e[1]} : ctr'[k] = ctr[k]
      /\ \A m \in Names \ {Svc(e)} : ctr'[e[1]][m] = ctr[e[1]][m]
      /\ ctr'[e[1]][Svc(e)] = new
  BY <1>1, <1>2, PutFacts DEF TypeInv
<1>4. Svc(e) \in Running =>
        OldName[Svc(e)] \in Names /\ OldName[Svc(e)] # Svc(e)
  BY NameFacts
<1> QED
  BY <1>3, <1>4 DEF CtrFrame, Parked

\* What a call does: the frame, and what it makes of a calm host.
Effect(e) ==
    /\ Frame(e)
    /\ (StepOK(e) /\ e[1] \notin struck') => Good(e) /\ Spares(e)

LEMMA InspectEffect ==
    ASSUME TypeInv, TaskInv, NEW e \in AtWork, Inspect(e)
    PROVE  Effect(e)
<1>1. task[e].step \in {"inspect"}
  BY DEF Inspect, At
<1>2. /\ task[e].step \in RunSteps /\ Svc(e) \in Running
      /\ StepsOf(Head(task[e].ops)) = RunSteps
      /\ OldName[Svc(e)] \in Names /\ OldName[Svc(e)] # Svc(e)
      /\ Parked(e) \in Containers
  BY <1>1, RunOp DEF RunSteps
<1>3. e \in Entries /\ e[1] \in Hosts /\ Svc(e) \in Names /\ Ctr(e) \in Containers
  BY WorkFacts
<1>4. /\ TaskFrame(e) /\ CtrFrame(e) /\ ctr' = ctr /\ struck' = struck /\ Stays(e)
      /\ \/ Ctr(e).st = "absent" /\ task'[e].step = "create"
         \/ Ctr(e).st = "running" /\ task'[e].step = "compare"
         \/ Ctr(e).st \in {"created", "exited"}
  <2>1. CtrFrame(e) /\ ctr' = ctr
    BY KeptFrame DEF Inspect
  <2>2. CASE Ctr(e).st = "absent" /\ Goto(e, "create")
    BY <1>2, <2>1, <2>2, GotoFrame DEF RunSteps
  <2>3. CASE Ctr(e).st = "running" /\ Goto(e, "compare")
    BY <1>2, <2>1, <2>3, GotoFrame DEF RunSteps
  <2>4. CASE Ctr(e).st \in {"created", "exited"} /\ Goto(e, "restart")
    BY <1>2, <2>1, <2>4, GotoFrame DEF RunSteps
  <2> QED
    BY <2>2, <2>3, <2>4 DEF Inspect
<1>5. Frame(e)
  BY <1>3, <1>4 DEF Frame, Inspect, Others, TypeInv
<1>6. SUFFICES ASSUME StepOK(e), e[1] \notin struck'
             PROVE  Good(e) /\ Spares(e)
  BY <1>5 DEF Effect
<1>7. Ctr(e).st \in OwnStates(task[e].step)
      /\ Parked(e).st = IF task[e].step \in Rolling THEN "exited" ELSE "absent"
  BY <1>2, <1>6 DEF StepOK
<1>8. Ctr(e).st \in {"absent", "running"} /\ Parked(e).st = "absent"
  BY <1>1, <1>7 DEF OwnStates, Rolling
<1>9. Good(e)
  BY <1>4, <1>8 DEF Good, Over, Ready, OwnStates, Rolling, Ctr, Parked
<1>10. Spares(e)
  BY <1>4 DEF Spares, Ctr
<1> QED
  BY <1>9, <1>10

LEMMA RestartEffect ==
    ASSUME TypeInv, TaskInv, NEW e \in AtWork, Restart(e)
    PROVE  Effect(e)
<1>1. task[e].step \in {"restart", "restart_old"}
  BY DEF Restart, At
<1>2. /\ task[e].step \in RunSteps /\ Svc(e) \in Running
      /\ StepsOf(Head(task[e].ops)) = RunSteps
      /\ OldName[Svc(e)] \in Names /\ OldName[Svc(e)] # Svc(e)
      /\ Parked(e) \in Containers
  BY <1>1, RunOp DEF RunSteps
<1>3. e \in Entries /\ e[1] \in Hosts /\ Svc(e) \in Names /\ Ctr(e) \in Containers
  BY WorkFacts
<1>4. TaskFrame(e) /\ CtrFrame(e) /\ struck' = struck
  <2> DEFINE n == IF At(e, "restart") THEN Svc(e) ELSE OldName[Svc(e)]
  <2>1. n \in Names /\ n \in {Svc(e), OldName[Svc(e)]}
    BY <1>2, <1>3
  <2>2. CASE Refused(e) /\ Kept
    BY <2>2, RefusedFrame, KeptFrame
  <2>3. CASE ctr' = [ctr EXCEPT ![e[1]][n].st = "running"] /\ RunDone(e)
    <3>1. ctr[e[1]][n] \in Containers
      BY <1>3, <2>1 DEF TypeInv
    <3>2. [ctr[e[1]][n] EXCEPT !.st = "running"] \in Containers
      BY <3>1, WithState DEF States
    <3>3. ctr' = [ctr EXCEPT ![e[1]][n] = [ctr[e[1]][n] EXCEPT !.st = "running"]]
      BY <2>3
    <3> HIDE DEF n
    <3>4. CtrFrame(e)
      BY <1>2, <1>3, <2>1, <3>2, <3>3, PutFacts DEF CtrFrame, TypeInv
    <3> QED
      BY <1>2, <2>3, <3>4, RunDoneFrame
  <2> QED
    BY <2>2, <2>3 DEF Restart
<1>5. Frame(e)
  BY <1>3, <1>4 DEF Frame, Restart, Others, TypeInv
<1>6. SUFFICES ASSUME StepOK(e), e[1] \notin struck'
             PROVE  Good(e) /\ Spares(e)
  BY <1>5 DEF Effect
<1>7. Ctr(e).st \in OwnStates(task[e].step)
      /\ Parked(e).st = IF task[e].step \in Rolling THEN "exited" ELSE "absent"
  BY <1>2, <1>6 DEF StepOK
<1> QED
  BY <1>1, <1>7 DEF OwnStates

LEMMA CompareEffect ==
    ASSUME TypeInv, TaskInv, NEW e \in AtWork, Compare(e)
    PROVE  Effect(e)
<1>1. task[e].step \in {"compare"}
  BY DEF Compare, At
<1>2. /\ task[e].step \in RunSteps /\ Svc(e) \in Running
      /\ StepsOf(Head(task[e].ops)) = RunSteps
      /\ OldName[Svc(e)] \in Names /\ OldName[Svc(e)] # Svc(e)
      /\ Parked(e) \in Containers
  BY <1>1, RunOp DEF RunSteps
<1>3. e \in Entries /\ e[1] \in Hosts /\ Svc(e) \in Names /\ Ctr(e) \in Containers
  BY WorkFacts
<1>4. /\ TaskFrame(e) /\ CtrFrame(e) /\ ctr' = ctr /\ struck' = struck
      /\ \/ Quits(e) /\ Ctr(e).st = "absent"
         \/ Moves(e)
         \/ Stays(e) /\ task'[e].step = "check"
         \/ Stays(e) /\ task'[e].step = "list" /\ ~AsWanted(e[1], Svc(e))
  <2>1. CtrFrame(e) /\ ctr' = ctr
    BY KeptFrame DEF Compare
  <2>2. CASE Ctr(e).st = "absent" /\ Refused(e)
    BY <2>1, <2>2, RefusedFrame
  <2>3. CASE RunDone(e)
    BY <1>2, <2>1, <2>3, RunDoneFrame
  <2>4. CASE ~AsWanted(e[1], Svc(e)) /\ Goto(e, "list")
    BY <1>2, <2>1, <2>4, GotoFrame DEF RunSteps
  <2> QED
    BY <2>2, <2>3, <2>4 DEF Compare
<1>5. Frame(e)
  BY <1>3, <1>4 DEF Frame, Compare, Others, TypeInv
<1>6. SUFFICES ASSUME StepOK(e), e[1] \notin struck'
             PROVE  Good(e) /\ Spares(e)
  BY <1>5 DEF Effect
<1>7. Ctr(e).st \in OwnStates(task[e].step)
      /\ Parked(e).st = IF task[e].step \in Rolling THEN "exited" ELSE "absent"
  BY <1>2, <1>6 DEF StepOK
<1>8. Ctr(e).st = "running" /\ Parked(e).st = "absent"
  BY <1>1, <1>7 DEF OwnStates, Rolling
<1>9. Good(e)
  BY <1>4, <1>8 DEF Good, Over, Ready, OwnStates, Rolling, Ctr, Parked
<1>10. Spares(e)
  BY <1>4 DEF Spares, Ctr
<1> QED
  BY <1>9, <1>10

LEMMA RollListEffect ==
    ASSUME TypeInv, TaskInv, NEW e \in AtWork, RollList(e)
    PROVE  Effect(e)
<1>1. task[e].step \in {"list"}
  BY DEF RollList, At
<1>2. /\ task[e].step \in RunSteps /\ Svc(e) \in Running
      /\ StepsOf(Head(task[e].ops)) = RunSteps
      /\ OldName[Svc(e)] \in Names /\ OldName[Svc(e)] # Svc(e)
      /\ Parked(e) \in Containers
  BY <1>1, RunOp DEF RunSteps
<1>3. e \in Entries /\ e[1] \in Hosts /\ Svc(e) \in Names /\ Ctr(e) \in Containers
  BY WorkFacts
<1>4. /\ TaskFrame(e) /\ CtrFrame(e) /\ ctr' = ctr /\ struck' = struck
      /\ \/ Moves(e)
         \/ Stays(e) /\ task'[e].step \in {"check", "stop"}
  <2>1. CtrFrame(e) /\ ctr' = ctr
    BY KeptFrame DEF RollList
  <2>2. CASE RunDone(e)
    BY <1>2, <2>1, <2>2, RunDoneFrame
  <2>3. CASE Goto(e, "stop")
    BY <1>2, <2>1, <2>3, GotoFrame DEF RunSteps
  <2> QED
    BY <2>2, <2>3 DEF RollList
<1>5. Frame(e)
  BY <1>3, <1>4 DEF Frame, RollList, Others, TypeInv
<1>6. SUFFICES ASSUME StepOK(e), e[1] \notin struck'
             PROVE  Good(e) /\ Spares(e)
  BY <1>5 DEF Effect
<1>7. Ctr(e).st \in OwnStates(task[e].step)
      /\ Parked(e).st = IF task[e].step \in Rolling THEN "exited" ELSE "absent"
  BY <1>2, <1>6 DEF StepOK
<1>8. Ctr(e).st = "running" /\ Parked(e).st = "absent"
  BY <1>1, <1>7 DEF OwnStates, Rolling
<1>11. ~AsWanted(e[1], Svc(e))
  BY <1>1, <1>2, <1>6 DEF StepOK
<1>9. Good(e)
  BY <1>4, <1>8, <1>11 DEF Good, Over, Ready, OwnStates, Rolling, Ctr, Parked
<1>10. Spares(e)
  BY <1>4 DEF Spares, Ctr
<1> QED
  BY <1>9, <1>10

LEMMA RollStopEffect ==
    ASSUME TypeInv, TaskInv, NEW e \in AtWork, RollStop(e)
    PROVE  Effect(e)
<1>1. task[e].step \in {"stop"}
  BY DEF RollStop, At
<1>2. /\ task[e].step \in RunSteps /\ Svc(e) \in Running
      /\ StepsOf(Head(task[e].ops)) = RunSteps
      /\ OldName[Svc(e)] \in Names /\ OldName[Svc(e)] # Svc(e)
      /\ Parked(e) \in Containers
  BY <1>1, RunOp DEF RunSteps
<1>3. e \in Entries /\ e[1] \in Hosts /\ Svc(e) \in Names /\ Ctr(e) \in Containers
  BY WorkFacts
<1>4. /\ TaskFrame(e) /\ CtrFrame(e) /\ struck' = struck
      /\ \/ Ctr(e).st = "absent"
         \/ /\ Stays(e) /\ task'[e].step = "wait"
            /\ Ctr(e).st = "running" => ctr'[e[1]][Svc(e)].st = "exited"
            /\ ctr'[e[1]][OldName[Svc(e)]] = Parked(e)
  <2>1. CASE Ctr(e).st = "absent" /\ Refused(e) /\ Kept
    BY <2>1, RefusedFrame, KeptFrame
  <2>2. CASE SetCtr(e, Stopped(Ctr(e))) /\ Goto(e, "wait")
    <3>1. CASE Ctr(e).st = "created"
      <4>1. SetCtr(e, Ctr(e))
        BY <2>2, <3>1 DEF Stopped
      <4> QED
        BY <1>2, <1>3, <2>2, <3>1, <4>1, GotoFrame, SetCtrFrame DEF RunSteps
    <3>2. CASE Ctr(e).st # "created"
      <4>1. SetCtr(e, [Ctr(e) EXCEPT !.st = "exited"])
        BY <2>2, <3>2 DEF Stopped
      <4>2. /\ [Ctr(e) EXCEPT !.st = "exited"] \in Containers
            /\ [Ctr(e) EXCEPT !.st = "exited"].st = "exited"
        BY <1>3, WithState DEF States
      <4>3. TaskFrame(e) /\ Stays(e) /\ task'[e].step = "wait" /\ struck' = struck
        BY <1>2, <2>2, GotoFrame DEF RunSteps
      <4> QED
        BY <1>2, <4>1, <4>2, <4>3, SetCtrFrame
    <3> QED
      BY <3>1, <3>2
  <2> QED
    BY <2>1, <2>2 DEF RollStop
<1>5. Frame(e)
  BY <1>3, <1>4 DEF Frame, RollStop, Others, TypeInv
<1>6. SUFFICES ASSUME StepOK(e), e[1] \notin struck'
             PROVE  Good(e) /\ Spares(e)
  BY <1>5 DEF Effect
<1>7. Ctr(e).st \in OwnStates(task[e].step)
      /\ Parked(e).st = IF task[e].step \in Rolling THEN "exited" ELSE "absent"
  BY <1>2, <1>6 DEF StepOK
<1>8. Ctr(e).st = "running" /\ Parked(e).st = "absent"
  BY <1>1, <1>7 DEF OwnStates, Rolling
<1>11. ~AsWanted(e[1], Svc(e))
  BY <1>1, <1>2, <1>6 DEF StepOK
<1>9. Good(e)
  BY <1>4, <1>8 DEF Good, Over, Ready, OwnStates, Rolling, Ctr, Parked
<1>10. Spares(e)
  BY <1>11 DEF Spares, Ctr
<1> QED
  BY <1>9, <1>10

LEMMA RollWaitEffect ==
    ASSUME TypeInv, TaskInv, NEW e \in AtWork, RollWait(e)
    PROVE  Effect(e)
<1>1. task[e].step \in {"wait"}
  BY DEF RollWait, At
<1>2. /\ task[e].step \in RunSteps /\ Svc(e) \in Running
      /\ StepsOf(Head(task[e].ops)) = RunSteps
      /\ OldName[Svc(e)] \in Names /\ OldName[Svc(e)] # Svc(e)
      /\ Parked(e) \in Containers
  BY <1>1, RunOp DEF RunSteps
<1>3. e \in Entries /\ e[1] \in Hosts /\ Svc(e) \in Names /\ Ctr(e) \in Containers
  BY WorkFacts
<1>4. /\ TaskFrame(e) /\ CtrFrame(e) /\ ctr' = ctr /\ struck' = struck /\ Stays(e)
      /\ \/ Ctr(e).st = "absent"
         \/ task'[e].step = "rename"
  <2>1. CtrFrame(e) /\ ctr' = ctr
    BY KeptFrame DEF RollWait
  <2>2. CASE Ctr(e).st = "absent"
    <3>1. Goto(e, "roll_create")
      BY <2>2 DEF RollWait
    <3> QED
      BY <1>2, <2>1, <2>2, <3>1, GotoFrame DEF RunSteps
  <2>3. CASE Ctr(e).st # "absent"
    <3>1. Goto(e, "rename")
      BY <2>3 DEF RollWait
    <3> QED
      BY <1>2, <2>1, <3>1, GotoFrame DEF RunSteps
  <2> QED
    BY <2>2, <2>3
<1>5. Frame(e)
  BY <1>3, <1>4 DEF Frame, RollWait, Others, TypeInv
<1>6. SUFFICES ASSUME StepOK(e), e[1] \notin struck'
             PROVE  Good(e) /\ Spares(e)
  BY <1>5 DEF Effect
<1>7. Ctr(e).st \in OwnStates(task[e].step)
      /\ Parked(e).st = IF task[e].step \in Rolling THEN "exited" ELSE "absent"
  BY <1>2, <1>6 DEF StepOK
<1>8. Ctr(e).st = "exited" /\ Parked(e).st = "absent"
  BY <1>1, <1>7 DEF OwnStates, Rolling
<1>9. Good(e)
  BY <1>4, <1>8 DEF Good, Over, Ready, OwnStates, Rolling, Ctr, Parked
<1>10. Spares(e)
  BY <1>4 DEF Spares, Ctr
<1> QED
  BY <1>9, <1>10

LEMMA RollRenameEffect ==
    ASSUME TypeInv, TaskInv, NEW e \in AtWork, RollRename(e)
    PROVE  Effect(e)
<1>1. task[e].step \in {"rename"}
  BY DEF RollRename, At
<1>2. /\ task[e].step \in RunSteps /\ Svc(e) \in Running
      /\ StepsOf(Head(task[e].ops)) = RunSteps
      /\ OldName[Svc(e)] \in Names /\ OldName[Svc(e)] # Svc(e)
      /\ Parked(e) \in Containers
  BY <1>1, RunOp DEF RunSteps
<1>3. e \in Entries /\ e[1] \in Hosts /\ Svc(e) \in Names /\ Ctr(e) \in Containers
  BY WorkFacts
<1>4. /\ TaskFrame(e) /\ CtrFrame(e) /\ struck' = struck
      /\ \/ Ctr(e).st = "absent" \/ Parked(e).st # "absent"
         \/ /\ Stays(e) /\ task'[e].step = "roll_create"
            /\ ctr'[e[1]][Svc(e)].st = "absent"
            /\ ctr'[e[1]][OldName[Svc(e)]] = Ctr(e)
  <2> DEFINE ok == Ctr(e).st # "absent" /\ Parked(e).st = "absent"
  <2>1. CASE ~ok /\ Refused(e) /\ Kept
    BY <2>1, RefusedFrame, KeptFrame
  <2>2. CASE ok
    <3>1. /\ ctr' = [ctr EXCEPT ![e[1]][Svc(e)] = NoContainer,
                                ![e[1]][OldName[Svc(e)]] = Ctr(e)]
          /\ task' = [o \in Entries |->
                        CASE o = e -> [task[o] EXCEPT !.step = "roll_create"]
                          [] /\ o \in AtWork \ {e} /\ o[1] = e[1]
                             /\ At(o, "restart") /\ Svc(o) = Svc(e)
                             -> [task[o] EXCEPT !.step = "restart_old"]
                          [] OTHER -> task[o]]
          /\ struck' = struck
      BY <2>2 DEF RollRename
    <3>2. /\ CtrFrame(e) /\ ctr'[e[1]][Svc(e)] = NoContainer
          /\ ctr'[e[1]][OldName[Svc(e)]] = Ctr(e)
      <4> DEFINE f == [ctr EXCEPT ![e[1]][Svc(e)] = NoContainer]
      <4>1. ctr \in [Hosts -> [Names -> Containers]]
        BY DEF TypeInv
      <4>2. /\ f \in [Hosts -> [Names -> Containers]]
            /\ \A k \in Hosts \ {e[1]} : f[k] = ctr[k]
            /\ \A m \in Names \ {Svc(e)} : f[e[1]][m] = ctr[e[1]][m]
            /\ f[e[1]][Svc(e)] = NoContainer
        BY <1>3, <4>1, NoContainerType, PutFacts
      <4>3. ctr' = [f EXCEPT ![e[1]][OldName[Svc(e)]] = Ctr(e)]
        BY <3>1
      <4> HIDE DEF f
      <4>4. /\ ctr' \in [Hosts -> [Names -> Containers]]
            /\ \A k \in Hosts \ {e[1]} : ctr'[k] = f[k]
            /\ \A m \in Names \ {OldName[Svc(e)]} : ctr'[e[1]][m] = f[e[1]][m]
            /\ ctr'[e[1]][OldName[Svc(e)]] = Ctr(e)
        BY <1>2, <1>3, <4>2, <4>3, PutFacts
      <4> QED
        BY <1>2, <1>3, <4>2, <4>4 DEF CtrFrame
    <3>3. task'[e] = [task[e] EXCEPT !.step = "roll_create"]
      BY <1>3, <3>1
    <3>4. \A o \in Entries \ {e} : task'[o] = task[o] \/ Follows(e, o)
      <4> SUFFICES ASSUME NEW o \in Entries \ {e}
                   PROVE  task'[o] = task[o] \/ Follows(e, o)
        OBVIOUS
      <4>1. CASE /\ o \in AtWork \ {e} /\ o[1] = e[1]
                 /\ At(o, "restart") /\ Svc(o) = Svc(e)
        <5>1. task'[o] = [task[o] EXCEPT !.step = "restart_old"]
          BY <3>1, <4>1
        <5> QED
          BY <4>1, <5>1 DEF Follows, At
      <4>2. CASE ~(/\ o \in AtWork \ {e} /\ o[1] = e[1]
                   /\ At(o, "restart") /\ Svc(o) = Svc(e))
        BY <3>1, <4>2
      <4> QED
        BY <4>1, <4>2
    <3>5. task[e] \in Tasks /\ \A o \in Entries : task[o] \in Tasks
      BY <1>3 DEF TypeInv
    <3>6. Stays(e) /\ task'[e].step = "roll_create"
      <4>1. "roll_create" \in Steps /\ "roll_create" \in RunSteps
        BY DEF Steps, RunSteps
      <4> QED
        BY <1>2, <3>3, <3>5, <4>1 DEF Stays, Tasks
    <3>7. \A o \in Entries : task'[o] \in Tasks
      <4>1. "restart_old" \in Steps
        BY DEF Steps, RunSteps
      <4>2. \A o \in Entries : [task[o] EXCEPT !.step = "restart_old"] \in Tasks
        BY <3>5, <4>1 DEF Tasks
      <4> QED
        BY <3>4, <3>5, <3>6, <4>2 DEF Follows, Stays
    <3>8. task' \in [Entries -> Tasks]
      BY <3>1, <3>7
    <3> QED
      BY <3>1, <3>2, <3>4, <3>6, <3>8, NoContainerType DEF TaskFrame
  <2>3. ~ok => Refused(e) /\ Kept
    BY DEF RollRename
  <2> QED
    BY <2>1, <2>2, <2>3
<1>5. Frame(e)
  BY <1>3, <1>4 DEF Frame, RollRename, Others, TypeInv
<1>6. SUFFICES ASSUME StepOK(e), e[1] \notin struck'
             PROVE  Good(e) /\ Spares(e)
  BY <1>5 DEF Effect
<1>7. Ctr(e).st \in OwnStates(task[e].step)
      /\ Parked(e).st = IF task[e].step \in Rolling THEN "exited" ELSE "absent"
  BY <1>2, <1>6 DEF StepOK
<1>8. Ctr(e).st = "exited" /\ Parked(e).st = "absent"
  BY <1>1, <1>7 DEF OwnStates, Rolling
<1>9. Good(e)
  BY <1>4, <1>8 DEF Good, Over, Ready, OwnStates, Rolling, Ctr, Parked
<1>10. Spares(e)
  BY <1>8 DEF Spares, Ctr
<1> QED
  BY <1>9, <1>10

LEMMA CreateContainerEffect ==
    ASSUME TypeInv, TaskInv, NEW e \in AtWork, CreateContainer(e)
    PROVE  Effect(e)
<1>1. task[e].step \in {"create", "roll_create"}
  BY DEF CreateContainer, At
<1>2. /\ task[e].step \in RunSteps /\ Svc(e) \in Running
      /\ StepsOf(Head(task[e].ops)) = RunSteps
      /\ OldName[Svc(e)] \in Names /\ OldName[Svc(e)] # Svc(e)
      /\ Parked(e) \in Containers
  BY <1>1, RunOp DEF RunSteps
<1>3. e \in Entries /\ e[1] \in Hosts /\ Svc(e) \in Names /\ Ctr(e) \in Containers
  BY WorkFacts
<1>4. /\ TaskFrame(e) /\ CtrFrame(e) /\ struck' = struck
      /\ \/ Ctr(e).st # "absent"
         \/ Svc(e) # "nginx" /\ ctr[e[1]]["sidekick"].st = "absent"
         \/ /\ Stays(e) /\ ctr'[e[1]][Svc(e)].st = "created"
            /\ task'[e].step = IF task[e].step = "create" THEN "start"
                               ELSE "roll_start"
            /\ ctr'[e[1]][OldName[Svc(e)]] = Parked(e)
  <2> DEFINE ok == /\ Ctr(e).st = "absent"
                   /\ Svc(e) # "nginx" => ctr[e[1]]["sidekick"].st # "absent"
             next == IF task[e].step = "create" THEN "start" ELSE "roll_start"
  <2>1. CASE ~ok
    <3>1. Refused(e) /\ Kept
      BY <2>1 DEF CreateContainer
    <3> QED
      BY <2>1, <3>1, RefusedFrame, KeptFrame
  <2>2. CASE ok
    <3>1. SetCtr(e, Create(Svc(e), "created")) /\ Goto(e, next)
      BY <2>2 DEF CreateContainer, At
    <3>2. /\ Create(Svc(e), "created") \in Containers
          /\ Create(Svc(e), "created").st = "created"
      BY <1>2, NameFacts, CreateType DEF States
    <3>3. next \in StepsOf(Head(task[e].ops))
      BY <1>2 DEF RunSteps
    <3>4. TaskFrame(e) /\ Stays(e) /\ task'[e].step = next /\ struck' = struck
      BY <3>1, <3>3, GotoFrame
    <3>5. /\ CtrFrame(e) /\ ctr'[e[1]][Svc(e)].st = "created"
          /\ ctr'[e[1]][OldName[Svc(e)]] = Parked(e)
      BY <1>2, <3>1, <3>2, SetCtrFrame
    <3> QED
      BY <3>4, <3>5
  <2> QED
    BY <2>1, <2>2
<1>5. Frame(e)
  BY <1>3, <1>4 DEF Frame, CreateContainer, Others, TypeInv
<1>6. SUFFICES ASSUME StepOK(e), e[1] \notin struck'
             PROVE  Good(e) /\ Spares(e)
  BY <1>5 DEF Effect
<1>7. Ctr(e).st \in OwnStates(task[e].step)
      /\ Parked(e).st = IF task[e].step \in Rolling THEN "exited" ELSE "absent"
  BY <1>2, <1>6 DEF StepOK
<1>8. Ctr(e).st = "absent"
  BY <1>1, <1>7 DEF OwnStates
<1>11. Svc(e) # "nginx" => ctr[e[1]]["sidekick"].st # "absent"
  BY <1>2, <1>6 DEF StepOK
<1>12. CASE task[e].step = "create"
  <2>1. task'[e].step = "start" /\ Parked(e).st = "absent"
    BY <1>4, <1>7, <1>8, <1>11, <1>12 DEF Rolling
  <2> QED
    BY <1>4, <1>8, <1>11, <2>1 DEF Good, Ready, OwnStates, Rolling, Spares
<1>13. CASE task[e].step = "roll_create"
  <2>1. task'[e].step = "roll_start" /\ Parked(e).st = "exited"
    BY <1>4, <1>7, <1>8, <1>11, <1>13 DEF Rolling
  <2> QED
    BY <1>4, <1>8, <1>11, <2>1 DEF Good, Ready, OwnStates, Rolling, Spares
<1> QED
  BY <1>1, <1>12, <1>13

LEMMA StartContainerEffect ==
    ASSUME TypeInv, TaskInv, NEW e \in AtWork, StartContainer(e)
    PROVE  Effect(e)
<1>1. task[e].step \in {"start", "roll_start"}
  BY DEF StartContainer, At
<1>2. /\ task[e].step \in RunSteps /\ Svc(e) \in Running
      /\ StepsOf(Head(task[e].ops)) = RunSteps
      /\ OldName[Svc(e)] \in Names /\ OldName[Svc(e)] # Svc(e)
      /\ Parked(e) \in Containers
  BY <1>1, RunOp DEF RunSteps
<1>3. e \in Entries /\ e[1] \in Hosts /\ Svc(e) \in Names /\ Ctr(e) \in Containers
  BY WorkFacts
<1>4. /\ TaskFrame(e) /\ CtrFrame(e) /\ struck' = struck
      /\ \/ Ctr(e).st = "absent"
         \/ /\ ctr'[e[1]][Svc(e)].st = "running"
            /\ ctr'[e[1]][OldName[Svc(e)]] = Parked(e)
            /\ IF task[e].step = "start"
               THEN Moves(e) \/ (Stays(e) /\ task'[e].step = "check")
               ELSE Stays(e) /\ task'[e].step = "drop"
  <2>1. CASE Ctr(e).st = "absent"
    <3>1. Refused(e) /\ Kept
      BY <2>1 DEF StartContainer
    <3> QED
      BY <2>1, <3>1, RefusedFrame, KeptFrame
  <2>2. CASE Ctr(e).st # "absent"
    <3>1. /\ SetCtr(e, [Ctr(e) EXCEPT !.st = "running"])
          /\ IF task[e].step = "start" THEN RunDone(e) ELSE Goto(e, "drop")
      BY <2>2 DEF StartContainer, At
    <3>2. /\ [Ctr(e) EXCEPT !.st = "running"] \in Containers
          /\ [Ctr(e) EXCEPT !.st = "running"].st = "running"
      BY <1>3, WithState DEF States
    <3>3. /\ CtrFrame(e) /\ ctr'[e[1]][Svc(e)].st = "running"
          /\ ctr'[e[1]][OldName[Svc(e)]] = Parked(e)
      BY <1>2, <3>1, <3>2, SetCtrFrame
    <3>4. CASE task[e].step = "start"
      BY <1>2, <3>1, <3>3, <3>4, RunDoneFrame
    <3>5. CASE task[e].step # "start"
      <4>1. Goto(e, "drop") /\ "drop" \in StepsOf(Head(task[e].ops))
        BY <1>2, <3>1, <3>5 DEF RunSteps
      <4> QED
        BY <3>3, <3>5, <4>1, GotoFrame
    <3> QED
      BY <3>4, <3>5
  <2> QED
    BY <2>1, <2>2
<1>5. Frame(e)
  BY <1>3, <1>4 DEF Frame, StartContainer, Others, TypeInv
<1>6. SUFFICES ASSUME StepOK(e), e[1] \notin struck'
             PROVE  Good(e) /\ Spares(e)
  BY <1>5 DEF Effect
<1>7. Ctr(e).st \in OwnStates(task[e].step)
      /\ Parked(e).st = IF task[e].step \in Rolling THEN "exited" ELSE "absent"
  BY <1>2, <1>6 DEF StepOK
<1>8. Ctr(e).st = "created"
  BY <1>1, <1>7 DEF OwnStates
<1>11. Spares(e)
  BY <1>8 DEF Spares
<1>12. CASE task[e].step = "start"
  <2>1. Parked(e).st = "absent"
    BY <1>7, <1>12 DEF Rolling
  <2> QED
    BY <1>2, <1>4, <1>8, <1>11, <1>12, <2>1 DEF Good, Ready, Over, OwnStates,
       Rolling, Running
<1>13. CASE task[e].step = "roll_start"
  <2>1. Parked(e).st = "exited"
    BY <1>7, <1>13 DEF Rolling
  <2> QED
    BY <1>4, <1>8, <1>11, <1>13, <2>1 DEF Good, Ready, OwnStates, Rolling
<1> QED
  BY <1>1, <1>12, <1>13

LEMMA RollRemoveEffect ==
    ASSUME TypeInv, TaskInv, NEW e \in AtWork, RollRemove(e)
    PROVE  Effect(e)
<1>1. task[e].step \in {"drop"}
  BY DEF RollRemove, At
<1>2. /\ task[e].step \in RunSteps /\ Svc(e) \in Running
      /\ StepsOf(Head(task[e].ops)) = RunSteps
      /\ OldName[Svc(e)] \in Names /\ OldName[Svc(e)] # Svc(e)
      /\ Parked(e) \in Containers
  BY <1>1, RunOp DEF RunSteps
<1>3. e \in Entries /\ e[1] \in Hosts /\ Svc(e) \in Names /\ Ctr(e) \in Containers
  BY WorkFacts
<1>4. /\ TaskFrame(e) /\ CtrFrame(e) /\ struck' = struck
      /\ \/ Parked(e).st \in {"absent", "running"}
         \/ /\ Moves(e) \/ (Stays(e) /\ task'[e].step = "check")
            /\ ctr'[e[1]][Svc(e)] = Ctr(e)
            /\ ctr'[e[1]][OldName[Svc(e)]].st = "absent"
  <2>1. CASE Parked(e).st \in {"absent", "running"}
    <3>1. Refused(e) /\ Kept
      BY <2>1 DEF RollRemove
    <3> QED
      BY <2>1, <3>1, RefusedFrame, KeptFrame
  <2>2. CASE Parked(e).st \notin {"absent", "running"}
    <3>1. /\ ctr' = [ctr EXCEPT ![e[1]][OldName[Svc(e)]] = NoContainer]
          /\ RunDone(e)
      BY <2>2 DEF RollRemove
    <3>2. /\ ctr' \in [Hosts -> [Names -> Containers]]
          /\ \A k \in Hosts \ {e[1]} : ctr'[k] = ctr[k]
          /\ \A m \in Names \ {OldName[Svc(e)]} : ctr'[e[1]][m] = ctr[e[1]][m]
          /\ ctr'[e[1]][OldName[Svc(e)]] = NoContainer
      BY <1>2, <1>3, <3>1, NoContainerType, PutFacts DEF TypeInv
    <3>3. CtrFrame(e) /\ ctr'[e[1]][Svc(e)] = Ctr(e)
      BY <1>2, <1>3, <3>2 DEF CtrFrame, Ctr
    <3> QED
      BY <1>2, <3>1, <3>2, <3>3, NoContainerType, RunDoneFrame
  <2> QED
    BY <2>1, <2>2
<1>5. Frame(e)
  BY <1>3, <1>4 DEF Frame, RollRemove, Others, TypeInv
<1>6. SUFFICES ASSUME StepOK(e), e[1] \notin struck'
             PROVE  Good(e) /\ Spares(e)
  BY <1>5 DEF Effect
<1>7. Ctr(e).st \in OwnStates(task[e].step)
      /\ Parked(e).st = IF task[e].step \in Rolling THEN "exited" ELSE "absent"
  BY <1>2, <1>6 DEF StepOK
<1>8. Ctr(e).st = "running" /\ Parked(e).st = "exited"
  BY <1>1, <1>7 DEF OwnStates, Rolling
<1>9. Good(e)
  BY <1>2, <1>4, <1>8 DEF Good, Over, Ready, OwnStates, Rolling, Running
<1>10. Spares(e)
  BY <1>4, <1>8 DEF Spares, Ctr
<1> QED
  BY <1>9, <1>10

LEMMA RunSidekickEffect ==
    ASSUME TypeInv, TaskInv, NEW e \in AtWork, RunSidekick(e)
    PROVE  Effect(e)
<1>1. task[e].step \in {"sidekick_list", "sidekick_create"}
  BY DEF RunSidekick, At
<1>2. /\ Svc(e) = "sidekick"
      /\ StepsOf(Head(task[e].ops)) = {"sidekick_list", "sidekick_create"}
  BY <1>1, SideOp
<1>3. e \in Entries /\ e[1] \in Hosts /\ Svc(e) \in Names /\ Ctr(e) \in Containers
  BY WorkFacts
<1>4. /\ TaskFrame(e) /\ CtrFrame(e) /\ struck' = struck
      /\ \/ Stays(e)
         \/ Quits(e) /\ Ctr(e).st # "absent" /\ ctr' = ctr
         \/ Moves(e) /\ ctr'[e[1]]["sidekick"].st # "absent"
  <2>1. CASE Kept /\ Ctr(e).st = "absent" /\ Goto(e, "sidekick_create")
    BY <1>2, <2>1, GotoFrame, KeptFrame
  <2>2. CASE Kept /\ Ctr(e).st # "absent" /\ NextOp(e)
    BY <1>2, <2>2, NextFrame, KeptFrame DEF Ctr
  <2>3. CASE SetCtr(e, Create("sidekick", "created")) /\ NextOp(e)
    <3>1. /\ Create("sidekick", "created") \in Containers
          /\ Create("sidekick", "created").st = "created"
      BY NameFacts, CreateType DEF States
    <3> QED
      BY <1>2, <2>3, <3>1, NextFrame, SetCtrFrame
  <2>4. CASE Ctr(e).st # "absent" /\ Refused(e) /\ Kept
    BY <2>4, RefusedFrame, KeptFrame
  <2> QED
    BY <2>1, <2>2, <2>3, <2>4 DEF RunSidekick
<1>5. Frame(e)
  BY <1>3, <1>4 DEF Frame, RunSidekick, Others, TypeInv
<1>6. SUFFICES ASSUME StepOK(e), e[1] \notin struck'
             PROVE  Good(e) /\ Spares(e)
  BY <1>5 DEF Effect
<1>7. Svc(e) \notin Running /\ Svc(e) \notin Required(e[1])
  BY <1>2, NameFacts DEF Required
<1> QED
  BY <1>2, <1>4, <1>7 DEF Good, Ready, Over, Spares, Ctr

LEMMA RemoveNginxProxyEffect ==
    ASSUME TypeInv, TaskInv, NEW e \in AtWork, RemoveNginxProxy(e)
    PROVE  Effect(e)
<1>1. task[e].step \in {"rm_inspect", "rm_stop", "rm"}
  BY DEF RemoveNginxProxy, At
<1>2. /\ Svc(e) = "nginx" /\ Is(conf, e[1], "controlplane")
      /\ StepsOf(Head(task[e].ops)) = {"rm_inspect", "rm_stop", "rm"}
  BY <1>1, RemoveOp
<1>3. e \in Entries /\ e[1] \in Hosts /\ Svc(e) \in Names /\ Ctr(e) \in Containers
  BY WorkFacts
<1>4. /\ TaskFrame(e) /\ CtrFrame(e) /\ struck' = struck
      /\ ctr'[e[1]][OldName[Svc(e)]] = Parked(e)
      /\ \/ /\ Ctr(e).st # "absent" /\ ctr' = ctr
            /\ Stays(e) /\ task[e].step = "rm_inspect" /\ task'[e].step = "rm_stop"
         \/ /\ Stays(e) /\ task[e].step = "rm_stop" /\ task'[e].step = "rm"
            /\ Ctr(e).st = "running" => ctr'[e[1]][Svc(e)].st = "exited"
         \/ Moves(e) /\ ctr'[e[1]][Svc(e)].st = "absent"
         \/ task[e].step = "rm_stop" /\ Ctr(e).st = "absent"
         \/ task[e].step = "rm" /\ Ctr(e).st \in {"absent", "running"}
  <2>1. CASE Kept /\ Ctr(e).st = "absent" /\ NextOp(e)
    BY <2>1, NextFrame, KeptFrame DEF Ctr, Parked
  <2>2. CASE /\ task[e].step = "rm_inspect" /\ Kept /\ Ctr(e).st # "absent"
             /\ Goto(e, "rm_stop")
    BY <1>2, <2>2, GotoFrame, KeptFrame DEF Parked
  <2>3. CASE SetCtr(e, NoContainer) /\ NextOp(e)
    BY <1>2, <2>3, NoContainerType, NameFacts, NextFrame, SetCtrFrame
  <2>4. CASE /\ \/ task[e].step = "rm_stop" /\ Ctr(e).st = "absent"
                \/ task[e].step = "rm" /\ Ctr(e).st \in {"absent", "running"}
             /\ Refused(e) /\ Kept
    BY <2>4, RefusedFrame, KeptFrame DEF Parked
  <2>5. CASE /\ task[e].step = "rm_stop" /\ Goto(e, "rm")
             /\ SetCtr(e, Stopped(Ctr(e)))
    <3>1. /\ Stopped(Ctr(e)) \in Containers
          /\ Ctr(e).st = "running" => Stopped(Ctr(e)).st = "exited"
      BY <1>3, WithState DEF States, Stopped
    <3>2. /\ TaskFrame(e) /\ Stays(e) /\ task'[e].step = "rm" /\ struck' = struck
      BY <1>2, <2>5, GotoFrame
    <3> QED
      BY <1>2, <2>5, <3>1, <3>2, NameFacts, SetCtrFrame
  <2> QED
    BY <2>1, <2>2, <2>3, <2>4, <2>5 DEF RemoveNginxProxy, At
<1>5. Frame(e)
  BY <1>3, <1>4 DEF Frame, RemoveNginxProxy, Others, TypeInv
<1>6. SUFFICES ASSUME StepOK(e), e[1] \notin struck'
             PROVE  Good(e) /\ Spares(e)
  BY <1>5 DEF Effect
<1>7. /\ Svc(e) \in Running /\ Svc(e) # "sidekick"
      /\ Svc(e) \notin Required(e[1])
  BY <1>2, NameFacts DEF Required
<1>8. /\ task[e].step = "rm_inspect" => Ctr(e).st \in {"absent", "running"}
      /\ task[e].step = "rm_stop" => Ctr(e).st = "running"
      /\ task[e].step = "rm" => Ctr(e).st = "exited"
      /\ Parked(e).st = "absent"
  BY <1>1, <1>6, <1>7 DEF StepOK, OwnStates, Rolling
<1> QED
  BY <1>1, <1>4, <1>7, <1>8 DEF Good, Ready, Over, Spares, Ctr, OwnStates, Rolling

LEMMA RunHealthcheckEffect ==
    ASSUME TypeInv, TaskInv, NEW e \in AtWork, RunHealthcheck(e)
    PROVE  Effect(e)
<1>1. task[e].step \in {"check"}
  BY DEF RunHealthcheck, At
<1>2. /\ task[e].step \in RunSteps /\ Svc(e) \in Running
      /\ StepsOf(Head(task[e].ops)) = RunSteps
      /\ OldName[Svc(e)] \in Names /\ OldName[Svc(e)] # Svc(e)
      /\ Parked(e) \in Containers
  BY <1>1, RunOp DEF RunSteps
<1>3. e \in Entries /\ e[1] \in Hosts /\ Svc(e) \in Names /\ Ctr(e) \in Containers
  BY WorkFacts
<1>4. /\ TaskFrame(e) /\ CtrFrame(e) /\ ctr' = ctr
      /\ struck' \in {struck, struck \cup {e[1]}}
      /\ Moves(e) \/ Quits(e)
  <2>1. CtrFrame(e) /\ ctr' = ctr
    BY KeptFrame DEF RunHealthcheck
  <2>2. CASE NextOp(e)
    BY <2>1, <2>2, NextFrame
  <2>3. CASE Fails(e) /\ struck' \in {struck, struck \cup {e[1]}}
    BY <2>1, <2>3, FailsFrame
  <2> QED
    BY <2>2, <2>3 DEF RunHealthcheck
<1>5. Frame(e)
  BY <1>3, <1>4 DEF Frame, RunHealthcheck, Others, TypeInv
<1>6. SUFFICES ASSUME StepOK(e), e[1] \notin struck'
             PROVE  Good(e) /\ Spares(e)
  BY <1>5 DEF Effect
<1>7. Ctr(e).st \in OwnStates(task[e].step)
      /\ Parked(e).st = IF task[e].step \in Rolling THEN "exited" ELSE "absent"
  BY <1>2, <1>6 DEF StepOK
<1>8. Ctr(e).st = "running" /\ Parked(e).st = "absent"
  BY <1>1, <1>7 DEF OwnStates, Rolling
<1>11. Svc(e) # "sidekick"
  BY <1>2, NameFacts
<1>9. Good(e)
  BY <1>4, <1>8, <1>11 DEF Good, Over, Ready, OwnStates, Rolling, Ctr, Parked
<1>10. Spares(e)
  BY <1>4 DEF Spares, Ctr
<1> QED
  BY <1>9, <1>10

LEMMA CallFailsEffect ==
    ASSUME TypeInv, TaskInv, NEW e \in AtWork, CallFails(e)
    PROVE  Effect(e)
<1>1. e \in Entries /\ e[1] \in Hosts
  BY WorkFacts
<1>2. TaskFrame(e) /\ CtrFrame(e) /\ struck' = struck \cup {e[1]}
  BY FailsFrame, KeptFrame DEF CallFails
<1> QED
  BY <1>1, <1>2 DEF Effect, Frame, CallFails, Others, TypeInv

\* Every call of a goroutine.
LEMMA CallEffect ==
    ASSUME TypeInv, TaskInv, NEW e \in AtWork, TaskStep(e) \/ CallFails(e)
    PROVE  Effect(e)
BY InspectEffect, RestartEffect, CompareEffect, RollListEffect, RollStopEffect,
   RollWaitEffect, RollRenameEffect, CreateContainerEffect, StartContainerEffect,
   RollRemoveEffect, RunSidekickEffect, RemoveNginxProxyEffect,
   RunHealthcheckEffect, CallFailsEffect DEF TaskStep

-----------------------------------------------------------------------------
(* The invariant.                                                           *)

\* Nobody is at work outside a stage.
LEMMA IdleFacts ==
    ASSUME TypeInv, TaskInv, pc \in {"idle", "parse"}
    PROVE  AtWork = {}
BY DEF TaskInv, Stages

LEMMA MembersSame ==
    ASSUME conf' = conf, NEW p PROVE  Members(p)' = Members(p)
BY DEF Members, Times

LEMMA InitInv == PlanesAssumption /\ Init => PlanesInv
<1> SUFFICES ASSUME Init PROVE  PlanesInv
  OBVIOUS
<1>1. AtWork = {} /\ pc = "idle" /\ pc \notin Stages
  BY DEF Init, AtWork, Stages
<1>2. TypeInv
  BY NoContainerType, DoneType DEF Init, TypeInv, NoConfig
<1>3. TaskInv
  BY <1>1 DEF TaskInv
<1>4. CalmInv
  <2> SUFFICES ASSUME NEW h \in Hosts PROVE  CalmAt(h)
    BY DEF CalmInv, Calm
  <2>1. \A n \in Names : ctr[h][n].st = "absent"
    BY NoContainerType DEF Init
  <2> QED
    BY <1>1, <2>1, NameFacts DEF CalmAt, Settled
<1> QED
  BY <1>2, <1>3, <1>4 DEF PlanesInv

\* The goroutines of a stage at their beginning.
EnterTask(stage, e) ==
    IF e \notin Members(stage) THEN Done
    ELSE Begin(IF stage = "control" THEN ControlOps(e[1]) ELSE WorkerOps(e[1]))

LEMMA EnterFacts ==
    ASSUME NEW stage \in Stages, Enter(stage)
    PROVE  /\ pc' = stage /\ task' \in [Entries -> Tasks]
           /\ \A e \in Entries : e \notin Members(stage) => task'[e] = Done
           /\ \A e \in Members(stage) :
                 /\ task'[e].ops \in Plan(stage) /\ task'[e] # Done
                 /\ task'[e].step \in StepsOf(Head(task'[e].ops))
                 /\ \/ Head(task'[e].ops) = "sidekick"
                    \/ /\ Head(task'[e].ops) \in {"nginx", "remove_nginx"}
                       /\ task'[e].step \in {"inspect", "rm_inspect"}
           /\ \A h \in Hosts : \A r \in Roles :
                 <<h, r, 2>> \in Members(stage) => h \in raced'
           /\ raced \subseteq raced'
           /\ raced' \subseteq raced \cup Hosts
<1>1. /\ pc' = stage
      /\ task' = [e \in Entries |-> EnterTask(stage, e)]
      /\ raced' = raced \cup {h \in Hosts : \E r \in Roles :
                                               <<h, r, 2>> \in Members(stage)}
  BY DEF Enter, EnterTask
<1>2. \A e \in Entries : task'[e] = EnterTask(stage, e)
  BY <1>1
<1>3. Members(stage) \subseteq Entries
  BY DEF Members
<1>4. ASSUME NEW e \in Members(stage)
      PROVE  /\ task'[e].ops \in Plan(stage) /\ task'[e] # Done
             /\ task'[e] \in Tasks
             /\ task'[e].step \in StepsOf(Head(task'[e].ops))
             /\ \/ Head(task'[e].ops) = "sidekick"
                \/ /\ Head(task'[e].ops) \in {"nginx", "remove_nginx"}
                   /\ task'[e].step \in {"inspect", "rm_inspect"}
  <2> DEFINE ops == IF stage = "control" THEN ControlOps(e[1])
                    ELSE WorkerOps(e[1])
  <2>1. task'[e] = Begin(ops)
    BY <1>2, <1>3 DEF EnterTask
  <2>2. ops \in Plan(stage)
    BY ControlPlan, WorkerPlan DEF Plan
  <2>3. Head(ops) \in {"sidekick", "nginx", "remove_nginx"}
    <3>1. CASE stage = "control"
      BY <3>1, StartHeads
    <3>2. CASE stage # "control"
      BY <3>2, StartHeads
    <3> QED
      BY <3>1, <3>2
  <2> HIDE DEF ops
  <2>4. ops # <<>> /\ ops \in ControlTails \cup WorkerTails
    BY <2>2, PlanFacts
  <2>5. /\ Begin(ops) \in Tasks /\ Begin(ops).ops = ops /\ Begin(ops) # Done
        /\ Begin(ops).step \in StepsOf(Head(ops))
    BY <2>4, BeginType
  <2>6. Head(ops) # "sidekick" => Begin(ops).step \in {"inspect", "rm_inspect"}
    BY <2>4, BeginFacts
  <2> QED
    BY <2>1, <2>2, <2>3, <2>5, <2>6
<1>5. task' \in [Entries -> Tasks]
  BY <1>1, <1>2, <1>4, DoneType DEF EnterTask
<1>6. \A e \in Entries : e \notin Members(stage) => task'[e] = Done
  BY <1>2 DEF EnterTask
<1> QED
  BY <1>1, <1>4, <1>5, <1>6

LEMMA EndFacts ==
    ASSUME NEW how, End(how)
    PROVE  /\ pc' = "idle" /\ task' \in [Entries -> Tasks] /\ AtWork' = {}
           /\ \A e \in Entries : task'[e] = Done
BY DoneType DEF End, AtWork

\* ParseAndTunnel and Wait either enter a stage or end the run.
LEMMA StageStep ==
    ASSUME TypeInv, TaskInv, ParseAndTunnel \/ Wait
    PROVE  /\ AtWork = {} /\ UNCHANGED <<ctr, machine, conf, struck>>
           /\ \/ \E stage \in Stages : Enter(stage)
              \/ (\E how : End(how)) /\ raced' = raced
<1>1. CASE ParseAndTunnel
  BY <1>1, IdleFacts DEF ParseAndTunnel, Stages, hostVars
<1>2. CASE Wait
  <2>1. /\ AtWork = {} /\ UNCHANGED <<ctr, machine, conf, struck>>
        /\ pc \in DOMAIN After \ {"parse"}
    BY <1>2 DEF Wait, hostVars
  <2>2. pc \in Stages /\ (After[pc] # "end" => After[pc] \in Stages)
    BY <2>1 DEF After, Stages
  <2> QED
    BY <1>2, <2>1, <2>2 DEF Wait
<1> QED
  BY <1>1, <1>2

\* Faults are counted.
LEMMA FaultsStep ==
    ASSUME faults \in Nat, [Next]_vars PROVE  faults' \in Nat
<1>1. ASSUME NEW e, TaskStep(e) \/ CallFails(e) PROVE  faults' \in {faults, faults + 1}
  <2> USE DEF Goto, NextOp, Refused, RunDone, NoFault, Fault
  <2>1. CASE Inspect(e)
    BY <2>1 DEF Inspect
  <2>2. CASE Restart(e)
    BY <2>2 DEF Restart
  <2>3. CASE Compare(e)
    BY <2>3 DEF Compare
  <2>4. CASE RollList(e)
    BY <2>4 DEF RollList
  <2>5. CASE RollStop(e)
    BY <2>5 DEF RollStop
  <2>6. CASE RollWait(e)
    BY <2>6 DEF RollWait
  <2>7. CASE RollRename(e)
    BY <2>7 DEF RollRename
  <2>8. CASE CreateContainer(e)
    BY <2>8 DEF CreateContainer
  <2>9. CASE StartContainer(e)
    BY <2>9 DEF StartContainer
  <2>10. CASE RollRemove(e)
    BY <2>10 DEF RollRemove
  <2>11. CASE RunSidekick(e)
    BY <2>11 DEF RunSidekick
  <2>12. CASE RemoveNginxProxy(e)
    BY <2>12 DEF RemoveNginxProxy
  <2>13. CASE RunHealthcheck(e)
    BY <2>13 DEF RunHealthcheck
  <2>14. CASE CallFails(e)
    BY <2>14 DEF CallFails
  <2> QED
    BY <1>1, <2>1, <2>2, <2>3, <2>4, <2>5, <2>6, <2>7, <2>8, <2>9, <2>10,
       <2>11, <2>12, <2>13, <2>14 DEF TaskStep
<1>2. CASE \E e \in AtWork : TaskStep(e) \/ CallFails(e)
  BY <1>1, <1>2
<1>3. CASE ParseAndTunnel \/ Wait \/ Abort
  BY <1>3 DEF ParseAndTunnel, Wait, Abort, NoFault, Fault
<1>4. CASE UNCHANGED vars
  BY <1>4 DEF vars
<1> QED
  BY <1>2, <1>3, <1>4 DEF Next, StartUp, Serve, ServiceStops, MachineChanges,
     MachineReturns, Fault

\* TypeInv is inductive.
LEMMA TypeStep == TypeInv /\ TaskInv /\ [Next]_vars => TypeInv'
<1> SUFFICES ASSUME TypeInv, TaskInv, [Next]_vars PROVE  TypeInv'
  OBVIOUS
<1>0. faults' \in Nat
  BY FaultsStep DEF TypeInv
<1>1. ASSUME NEW c \in Configs, StartUp(c) PROVE  TypeInv'
  BY <1>0, <1>1, PlanesAssumption DEF StartUp, hostVars, TypeInv
<1>2. CASE ParseAndTunnel \/ Wait
  <2>1. UNCHANGED <<ctr, conf, struck>>
    BY <1>2, StageStep
  <2>2. ASSUME NEW stage \in Stages, Enter(stage) PROVE  TypeInv'
    BY <1>0, <2>1, <2>2, EnterFacts DEF TypeInv
  <2>3. ASSUME NEW how, End(how), raced' = raced PROVE  TypeInv'
    BY <1>0, <2>1, <2>3, EndFacts DEF TypeInv
  <2> QED
    BY <1>2, <2>2, <2>3, StageStep
<1>3. ASSUME NEW e \in AtWork, TaskStep(e) \/ CallFails(e) PROVE  TypeInv'
  BY <1>0, <1>3, CallEffect DEF Effect, Frame, TaskFrame, CtrFrame, TypeInv
<1>4. CASE Abort
  <2>1. \A e \in AtWork : e[1] \in Hosts
    BY WorkFacts
  <2>2. struck' \subseteq Hosts
    BY <1>4, <2>1 DEF Abort, TypeInv
  <2> QED
    BY <1>0, <1>4, <2>2, EndFacts DEF Abort, TypeInv, hostVars
<1>5. ASSUME NEW h \in Hosts, NEW s, NEW n, Serve(h, s, n) PROVE  TypeInv'
  BY <1>0, <1>5 DEF Serve, TypeInv
<1>6. ASSUME NEW h \in Hosts, NEW s \in Running, ServiceStops(h, s) PROVE  TypeInv'
  <2>1. s \in Names /\ ctr[h][s] \in Containers
    BY NameFacts DEF TypeInv
  <2>2. [ctr[h][s] EXCEPT !.st = "exited"] \in Containers
    BY <2>1, WithState DEF States
  <2>3. ctr' = [ctr EXCEPT ![h][s] = [ctr[h][s] EXCEPT !.st = "exited"]]
    BY <1>6 DEF ServiceStops
  <2>4. ctr' \in [Hosts -> [Names -> Containers]]
    BY <2>1, <2>2, <2>3, PutFacts DEF TypeInv
  <2> QED
    BY <1>0, <1>6, <2>4 DEF ServiceStops, TypeInv
<1>7. ASSUME NEW h \in Hosts, MachineChanges(h) \/ MachineReturns(h)
      PROVE  TypeInv'
  BY <1>0, <1>7 DEF MachineChanges, MachineReturns, TypeInv
<1>8. CASE UNCHANGED vars
  BY <1>0, <1>8 DEF vars, hostVars, TypeInv
<1> QED
  BY <1>1, <1>2, <1>3, <1>4, <1>5, <1>6, <1>7, <1>8 DEF Next

\* Nothing but a goroutine's call, the stages and Abort changes a task.
LEMMA TaskSame ==
    ASSUME TaskInv, UNCHANGED <<pc, conf, task, raced>> PROVE  TaskInv'
<1>1. Members(pc)' = Members(pc)
  BY DEF Members, Times
<1> QED
  BY <1>1 DEF TaskInv, AtWork, Plan

\* TaskInv is inductive.
LEMMA TaskStepInv == TypeInv /\ TaskInv /\ [Next]_vars => TaskInv'
<1> SUFFICES ASSUME TypeInv, TaskInv, [Next]_vars PROVE  TaskInv'
  OBVIOUS
<1>1. ASSUME NEW c \in Configs, StartUp(c) PROVE  TaskInv'
  <2>1. AtWork' = {} /\ pc' \notin Stages
    BY <1>1, IdleFacts DEF StartUp, AtWork, Stages
  <2> QED
    BY <2>1 DEF TaskInv
<1>2. CASE ParseAndTunnel \/ Wait
  <2>1. conf' = conf
    BY <1>2, StageStep
  <2>2. ASSUME NEW stage \in Stages, Enter(stage) PROVE  TaskInv'
    <3>1. Members(pc)' = Members(stage)
      <4>1. pc' = stage
        BY <2>2, EnterFacts
      <4> QED
        BY <2>1, <4>1 DEF Members, Times
    <3>2. \A e \in AtWork' : e \in Members(stage)
      BY <2>2, EnterFacts DEF AtWork
    <3> QED
      BY <2>2, <3>1, <3>2, EnterFacts DEF TaskInv, Plan
  <2>3. ASSUME NEW how, End(how) PROVE  TaskInv'
    BY <2>3, EndFacts DEF TaskInv, Stages
  <2> QED
    BY <1>2, <2>2, <2>3, StageStep
<1>3. ASSUME NEW e \in AtWork, TaskStep(e) \/ CallFails(e) PROVE  TaskInv'
  <2>1. Frame(e)
    BY <1>3, CallEffect DEF Effect
  <2>2. Members(pc)' = Members(pc) /\ pc' = pc /\ raced' = raced
    BY <2>1 DEF Frame, Members, Times
  <2>3. /\ e \in Entries /\ pc \in Stages /\ e \in Members(pc)
        /\ task[e].ops \in Plan(pc) /\ task[e].ops # <<>>
    BY WorkFacts
  <2>4. ASSUME NEW o \in Entries, task'[o] # Done
        PROVE  /\ o \in Members(pc) /\ task'[o].ops \in Plan(pc)
               /\ task'[o].step \in StepsOf(Head(task'[o].ops))
    <3>1. CASE o # e
      <4>1. CASE task'[o] = task[o]
        <5>1. o \in AtWork
          BY <2>4, <4>1 DEF AtWork
        <5> QED
          BY <4>1, <5>1, WorkFacts
      <4>2. CASE Follows(e, o)
        <5>1. /\ o \in AtWork /\ task[o].step \in RunSteps /\ task[o] \in Tasks
              /\ task'[o] = [task[o] EXCEPT !.step = "restart_old"]
          BY <4>2, WorkFacts DEF Follows, RunSteps
        <5>2. task'[o].ops = task[o].ops /\ task'[o].step = "restart_old"
          BY <5>1 DEF Tasks
        <5>3. "restart_old" \in StepsOf(Head(task[o].ops))
          BY <5>1, RunOp DEF RunSteps
        <5> QED
          BY <5>1, <5>2, <5>3, WorkFacts
      <4> QED
        BY <2>1, <3>1, <4>1, <4>2 DEF Frame, TaskFrame
    <3>2. CASE o = e
      <4>1. CASE Stays(e)
        BY <2>3, <3>2, <4>1 DEF Stays
      <4>2. CASE Moves(e)
        <5>1. Tail(task[e].ops) \in Plan(pc) /\ Tail(task[e].ops) # <<>>
          BY <2>3, <2>4, <3>2, <4>2, PlanFacts, BeginFacts DEF Moves
        <5>2. Tail(task[e].ops) \in ControlTails \cup WorkerTails
          BY <5>1, PlanFacts
        <5> QED
          BY <2>3, <3>2, <4>2, <5>1, <5>2, BeginType DEF Moves
      <4> QED
        BY <2>1, <2>4, <3>2, <4>1, <4>2 DEF Frame, TaskFrame, Quits
    <3> QED
      BY <3>1, <3>2
  <2> QED
    BY <2>2, <2>3, <2>4 DEF TaskInv, AtWork, Plan
<1>4. CASE Abort
  BY <1>4, EndFacts DEF Abort, TaskInv, Stages
<1>5. ASSUME NEW h \in Hosts, NEW s, NEW n, Serve(h, s, n) PROVE  TaskInv'
  BY <1>5, TaskSame DEF Serve
<1>6. ASSUME NEW h \in Hosts, NEW s \in Running, ServiceStops(h, s) PROVE  TaskInv'
  BY <1>6, TaskSame DEF ServiceStops
<1>7. ASSUME NEW h \in Hosts, MachineChanges(h) \/ MachineReturns(h)
      PROVE  TaskInv'
  BY <1>7, TaskSame DEF MachineChanges, MachineReturns
<1>8. CASE UNCHANGED vars
  BY <1>8, TaskSame DEF vars
<1> QED
  BY <1>1, <1>2, <1>3, <1>4, <1>5, <1>6, <1>7, <1>8 DEF Next

LEMMA WantSame ==
    ASSUME conf' = conf, NEW h, NEW s, ctr'[h] = ctr[h]
    PROVE  AsWanted(h, s)' <=> AsWanted(h, s)
<1>1. \A r : Listed(r)' = Listed(r)
  BY DEF Listed, Is, Times
<1> QED
  BY <1>1 DEF AsWanted, Want, BuildKubeAPIConfig, BuildKubeControllerConfig,
     BuildSchedulerConfig, BuildKubeletConfig, BuildKubeproxyConfig,
     BuildNginxProxyConfig, BuildSidekickConfig

\* A host nobody does anything on stays as calm as it is.
LEMMA HostSame ==
    ASSUME TypeInv, TaskInv, conf' = conf, NEW h \in Hosts, CalmAt(h),
           ctr'[h] = ctr[h],
           \A o \in Entries : o[1] = h => task'[o] = task[o]
    PROVE  CalmAt(h)'
<1>1. \A o \in Entries : o[1] = h => (o \in AtWork' <=> o \in AtWork)
  BY DEF AtWork
<1>2. AtWork' \subseteq Entries
  BY DEF AtWork
<1>3. \A o \in AtWork' : o[1] = h =>
         /\ o \in AtWork /\ task'[o] = task[o] /\ Svc(o)' = Svc(o)
         /\ StepOK(o)
  BY <1>1, <1>2 DEF Svc, CalmAt
<1>4. ASSUME NEW s \in Running, \A o \in AtWork' : o[1] = h => Svc(o)' # s
      PROVE  Settled(h, s)'
  <2>1. \A o \in AtWork : o[1] = h => Svc(o) # s
    BY <1>1, <1>3, <1>4 DEF AtWork
  <2>2. Settled(h, s)
    BY <2>1 DEF CalmAt
  <2> QED
    BY <2>2 DEF Settled
<1>5. ASSUME NEW o \in AtWork', o[1] = h PROVE  StepOK(o)'
  <2>1. /\ o \in AtWork /\ task'[o] = task[o] /\ Svc(o)' = Svc(o) /\ StepOK(o)
    BY <1>3, <1>5
  <2>2. AsWanted(o[1], Svc(o))' <=> AsWanted(o[1], Svc(o))
    BY <1>5, <2>1, WantSame
  <2>3. Ctr(o)' = Ctr(o) /\ Parked(o)' = Parked(o)
        /\ (ctr[o[1]]["sidekick"])' = ctr[o[1]]["sidekick"]
    BY <1>5, <2>1 DEF Ctr, Parked
  <2> QED
    BY <2>1, <2>2, <2>3 DEF StepOK
<1> QED
  BY <1>4, <1>5 DEF CalmAt

\* Without a goroutine all services of a calm host are settled.
LEMMA RestFacts ==
    ASSUME NEW h, CalmAt(h), \A o \in AtWork : o[1] # h
    PROVE  \A s \in Running : Settled(h, s)
BY DEF CalmAt

LEMMA RestSame ==
    ASSUME NEW h, CalmAt(h), \A o \in AtWork : o[1] # h,
           \A o \in AtWork' : o[1] # h, ctr'[h] = ctr[h]
    PROVE  CalmAt(h)'
<1>1. \A s \in Running : Settled(h, s)'
  BY RestFacts DEF Settled
<1> QED
  BY <1>1 DEF CalmAt

\* The goroutine's own host after its call.
LEMMA OwnHost ==
    ASSUME TypeInv, TaskInv, TypeInv', TaskInv', NEW e \in AtWork,
           Frame(e), Good(e), CalmAt(e[1]), e[1] \notin raced
    PROVE  CalmAt(e[1])'
<1> DEFINE h == e[1]
           s == Svc(e)
<1>1. /\ e \in Entries /\ h \in Hosts /\ s \in Services
      /\ task[e].ops \in Plan(pc) /\ task[e].ops # <<>>
      /\ Head(task[e].ops) \in Running \cup {"sidekick", "remove_nginx"}
  BY WorkFacts
<1>2. conf' = conf /\ pc' = pc /\ TaskFrame(e) /\ CtrFrame(e) /\ StepOK(e)
  BY DEF Frame, CalmAt
<1>3. \A o \in AtWork' : o[1] = h => o = e
  <2> SUFFICES ASSUME NEW o \in AtWork', o[1] = h, o # e PROVE  FALSE
    OBVIOUS
  <2>1. o \in Entries /\ o \in AtWork
    BY <1>2 DEF TaskFrame, Follows, AtWork
  <2> QED
    BY <2>1, OneGoroutine
<1>4. \A t \in Running : t # s => Settled(h, t)
  BY OneGoroutine DEF CalmAt
<1>5. \A t \in Running : t # s =>
         /\ ctr'[h][t] = ctr[h][t] /\ ctr'[h][OldName[t]] = ctr[h][OldName[t]]
  <2> SUFFICES ASSUME NEW t \in Running, t # s
               PROVE  /\ ctr'[h][t] = ctr[h][t]
                      /\ ctr'[h][OldName[t]] = ctr[h][OldName[t]]
    OBVIOUS
  <2>1. CASE s \in Running
    <3>1. t \in Names \ {s, OldName[s]} /\ OldName[t] \in Names \ {s, OldName[s]}
      BY <1>1, <2>1, NameFacts
    <3> QED
      BY <1>2, <3>1 DEF CtrFrame
  <2>2. CASE s \notin Running
    BY <1>1, <1>2, <2>2, NameFacts DEF CtrFrame
  <2> QED
    BY <2>1, <2>2
<1>6. s \in Running => ctr'[h]["sidekick"] = ctr[h]["sidekick"]
  BY <1>2, NameFacts DEF CtrFrame
<1>7. \A t \in Running : t # s => Settled(h, t)'
  BY <1>4, <1>5 DEF Settled
<1>8. Over(e) => \A t \in Running : Settled(h, t)'
  BY <1>7 DEF Over, Settled
<1>9. CASE Stays(e) /\ Ready(e)
  <2>1. /\ task'[e].ops = task[e].ops /\ Svc(e)' = s /\ e \in AtWork'
        /\ task'[e].step \in Steps
    BY <1>1, <1>9, DoneType DEF Stays, Svc, AtWork, Tasks
  <2>2. \A t \in Running : (\A o \in AtWork' : o[1] = h => Svc(o)' # t)
                           => Settled(h, t)'
    BY <1>7, <2>1
  <2>3. StepOK(e)'
    <3> SUFFICES ASSUME s \in Running PROVE  StepOK(e)'
      BY <2>1 DEF StepOK
    <3>1. Ctr(e)' = ctr'[h][s] /\ Parked(e)' = ctr'[h][OldName[s]]
      BY <2>1 DEF Ctr, Parked
    <3>2. ctr'[h] = ctr[h] => (AsWanted(e[1], Svc(e))' <=> AsWanted(h, s))
      BY <1>2, <2>1, WantSame
    <3>3. /\ ctr'[h][s].st \in OwnStates(task'[e].step)
          /\ ctr'[h][OldName[s]].st =
                IF task'[e].step \in Rolling THEN "exited" ELSE "absent"
          /\ task'[e].step \in {"list", "stop"} =>
                ctr'[h] = ctr[h] /\ ~AsWanted(h, s)
      BY <1>9 DEF Ready
    <3>4. s # "nginx" => ctr'[h]["sidekick"].st # "absent"
      BY <1>2, <1>6 DEF StepOK
    <3> QED
      BY <2>1, <3>1, <3>2, <3>3, <3>4 DEF StepOK
  <2> QED
    BY <1>3, <2>2, <2>3 DEF CalmAt
<1>10. CASE Over(e) /\ task'[e] = Done
  <2>1. \A o \in AtWork' : o[1] # h
    BY <1>3, <1>10 DEF AtWork
  <2> QED
    BY <1>8, <1>10, <2>1 DEF CalmAt
<1>11. CASE Over(e) /\ Moves(e) /\ Tail(task[e].ops) # <<>>
  <2> DEFINE ops == Tail(task[e].ops)
  <2>1. /\ Head(ops) \notin {"remove_nginx", "nginx", Head(task[e].ops)}
        /\ Head(ops) # "sidekick" =>
              Head(task[e].ops) \in {"sidekick"} \cup (Running \ {"nginx"})
    BY <1>1, <1>11, PlanFacts
  <2>2. task'[e].ops = ops /\ Svc(e)' = Head(ops)
    BY <1>11, <2>1, BeginFacts DEF Moves, Svc
  <2>3. Head(ops) # "sidekick" => task'[e].step = "inspect"
    BY <1>11, <2>1, BeginFacts DEF Moves
  <2>4. StepOK(e)'
    <3> SUFFICES ASSUME Head(ops) \in Running PROVE  StepOK(e)'
      BY <2>2 DEF StepOK
    <3>1. Head(ops) # "sidekick" /\ task'[e].step = "inspect"
      BY <2>3, NameFacts
    <3>2. \A t \in Running : /\ ctr'[h][t].st \in {"absent", "running"}
                             /\ ctr'[h][OldName[t]].st = "absent"
      BY <1>8, <1>11 DEF Settled
    <3>3. /\ ctr'[h][Head(ops)].st \in {"absent", "running"}
          /\ ctr'[h][OldName[Head(ops)]].st = "absent"
      BY <3>2
    <3>4. Ctr(e)' = ctr'[h][Head(ops)] /\ Parked(e)' = ctr'[h][OldName[Head(ops)]]
      BY <2>2 DEF Ctr, Parked
    <3>5. ctr'[h]["sidekick"].st # "absent"
      <4>1. Head(task[e].ops) \in {"sidekick"} \cup (Running \ {"nginx"})
            /\ s = Head(task[e].ops)
        BY <2>1, <3>1, NameFacts DEF Svc, Running
      <4>2. CASE s = "sidekick"
        BY <1>11, <4>2 DEF Over
      <4>3. CASE s \in Running \ {"nginx"}
        BY <1>2, <1>6, <4>3 DEF StepOK
      <4> QED
        BY <4>1, <4>2, <4>3
    <3> QED
      BY <3>1, <3>3, <3>4, <3>5 DEF StepOK, OwnStates, Rolling
  <2> QED
    BY <1>3, <1>8, <1>11, <2>4 DEF CalmAt
<1>12. (Moves(e) /\ Tail(task[e].ops) = <<>>) \/ Quits(e) => task'[e] = Done
  BY BeginFacts DEF Moves, Quits
<1> QED
  BY <1>9, <1>10, <1>11, <1>12 DEF Good

\* CalmInv is inductive.
LEMMA CalmStep ==
    TypeInv /\ TaskInv /\ CalmInv /\ TypeInv' /\ TaskInv'
    /\ [Next]_vars => CalmInv'
<1> SUFFICES ASSUME TypeInv, TaskInv, CalmInv, TypeInv', TaskInv',
                    [Next]_vars,
                    NEW h \in Hosts, h \notin struck', h \notin raced'
             PROVE  CalmAt(h)'
  BY DEF CalmInv, Calm
<1>0. h \notin struck /\ h \notin raced => CalmAt(h)
  BY DEF CalmInv, Calm
<1>1. ASSUME NEW c \in Configs, StartUp(c) PROVE  CalmAt(h)'
  <2>1. /\ UNCHANGED <<ctr, task, struck, raced>> /\ pc = "idle"
    BY <1>1 DEF StartUp, hostVars
  <2>2. AtWork = {} /\ AtWork' = {}
    BY <2>1, IdleFacts DEF AtWork
  <2> QED
    BY <1>0, <2>1, <2>2, RestSame
<1>2. CASE ParseAndTunnel \/ Wait
  <2>1. AtWork = {} /\ UNCHANGED <<ctr, conf, struck>>
    BY <1>2, StageStep
  <2>2. ASSUME NEW stage \in Stages, Enter(stage) PROVE  CalmAt(h)'
    <3>1. CalmAt(h)
      BY <1>0, <2>1, <2>2, EnterFacts
    <3>2. \A s \in Running : Settled(h, s)'
      BY <2>1, <3>1, RestFacts DEF Settled
    <3>3. ASSUME NEW e \in AtWork', e[1] = h PROVE  StepOK(e)'
      <4>1. e \in Members(stage)
        BY <2>2, <3>3, EnterFacts DEF AtWork
      <4>2. \/ Head(task'[e].ops) = "sidekick"
            \/ /\ Head(task'[e].ops) \in {"nginx", "remove_nginx"}
               /\ task'[e].step \in {"inspect", "rm_inspect"}
        BY <2>2, <4>1, EnterFacts
      <4>3. CASE Head(task'[e].ops) = "sidekick"
        BY <4>3, NameFacts DEF StepOK, Svc
      <4>4. CASE /\ Head(task'[e].ops) \in {"nginx", "remove_nginx"}
                 /\ task'[e].step \in {"inspect", "rm_inspect"}
        <5>1. Svc(e)' = "nginx"
          BY <4>4 DEF Svc
        <5>2. /\ ctr'[h]["nginx"].st \in {"absent", "running"}
              /\ ctr'[h][OldName["nginx"]].st = "absent"
          BY <3>2, NameFacts DEF Settled
        <5>3. Ctr(e)' = ctr'[h]["nginx"] /\ Parked(e)' = ctr'[h][OldName["nginx"]]
          BY <3>3, <5>1 DEF Ctr, Parked
        <5> QED
          BY <4>4, <5>1, <5>2, <5>3 DEF StepOK, OwnStates, Rolling
      <4> QED
        BY <4>2, <4>3, <4>4
    <3> QED
      BY <3>2, <3>3 DEF CalmAt
  <2>3. ASSUME NEW how, End(how), raced' = raced PROVE  CalmAt(h)'
    BY <1>0, <2>1, <2>3, EndFacts, RestSame
  <2> QED
    BY <1>2, <2>2, <2>3, StageStep
<1>3. ASSUME NEW e \in AtWork, TaskStep(e) \/ CallFails(e) PROVE  CalmAt(h)'
  <2>1. Effect(e) /\ Frame(e)
    BY <1>3, CallEffect DEF Effect
  <2>2. CalmAt(h) /\ conf' = conf /\ h \notin raced
    BY <1>0, <2>1 DEF Frame
  <2>3. CASE e[1] = h
    <3>1. StepOK(e)
      BY <2>2, <2>3 DEF CalmAt
    <3>2. Good(e)
      BY <2>1, <2>3, <3>1 DEF Effect
    <3> QED
      BY <2>1, <2>2, <2>3, <3>2, OwnHost
  <2>4. CASE e[1] # h
    <3>1. ctr'[h] = ctr[h]
      BY <2>1, <2>4 DEF Frame, CtrFrame
    <3>2. \A o \in Entries : o[1] = h => task'[o] = task[o]
      BY <2>1, <2>4 DEF Frame, TaskFrame, Follows
    <3> QED
      BY <2>2, <3>1, <3>2, HostSame
  <2> QED
    BY <2>3, <2>4
<1>4. CASE Abort
  <2>1. UNCHANGED <<ctr, raced>> /\ AtWork' = {}
        /\ struck' = struck \cup {e[1] : e \in AtWork}
    BY <1>4, EndFacts DEF Abort, hostVars
  <2> QED
    BY <1>0, <2>1, RestSame
<1>5. ASSUME NEW k \in Hosts, NEW s, NEW n, Serve(k, s, n) PROVE  CalmAt(h)'
  BY <1>0, <1>5, HostSame DEF Serve
<1>6. ASSUME NEW k \in Hosts, NEW s \in Running, ServiceStops(k, s)
      PROVE  CalmAt(h)'
  <2>1. /\ UNCHANGED <<conf, task, raced>> /\ struck' = struck \cup {k}
        /\ ctr' = [ctr EXCEPT ![k][s].st = "exited"]
    BY <1>6 DEF ServiceStops
  <2>2. h # k /\ ctr'[h] = ctr[h]
    BY <2>1 DEF TypeInv
  <2> QED
    BY <1>0, <2>1, <2>2, HostSame
<1>7. ASSUME NEW k \in Hosts, MachineChanges(k) \/ MachineReturns(k)
      PROVE  CalmAt(h)'
  BY <1>0, <1>7, HostSame DEF MachineChanges, MachineReturns
<1>8. CASE UNCHANGED vars
  BY <1>0, <1>8, HostSame DEF vars, hostVars
<1> QED
  BY <1>1, <1>2, <1>3, <1>4, <1>5, <1>6, <1>7, <1>8 DEF Next

-----------------------------------------------------------------------------
(* The theorems.                                                            *)

\* The invariant holds in every state.
THEOREM PlanesInvHolds == Spec => []PlanesInv
<1>1. Init => PlanesInv
  BY InitInv, PlanesAssumption
<1>2. PlanesInv /\ [Next]_vars => PlanesInv'
  BY TypeStep, TaskStepInv, CalmStep DEF PlanesInv
<1> QED
  BY <1>1, <1>2, PTL DEF Spec

\* A failure on one host never leaves another one half done.  An errgroup ends
\* when all its goroutines have returned, and on a calm host a goroutine
\* returns only from a service that is settled.
THEOREM OthersFinishedHolds == Spec => []OthersFinished
<1>1. PlanesInv => OthersFinished
  <2> SUFFICES ASSUME PlanesInv, pc = "idle",
                      NEW h \in Hosts \ (struck \cup raced)
               PROVE  ~LeftOver(h) /\ \A s \in Running :
                                         ctr[h][s].st \in {"absent", "running"}
    BY DEF OthersFinished
  <2>1. CalmAt(h) /\ AtWork = {}
    BY IdleFacts DEF PlanesInv, CalmInv, Calm
  <2>2. \A s \in Running : Settled(h, s)
    BY <2>1, RestFacts
  <2> QED
    BY <2>2 DEF Settled, LeftOver
<1> QED
  BY <1>1, PlanesInvHolds, PTL

\* No run touches a service that runs as configured: on a calm host the only
\* containers that are stopped or renamed are those Compare found different,
\* and nothing has changed them since.
THEOREM UnchangedNotRestartedHolds == Spec => UnchangedNotRestarted
<1> DEFINE A == pc # "idle" =>
        \A h \in HostsOf(conf) \ (struck' \cup raced) : \A s \in Required(h) :
            (ctr[h][s].st = "running" /\ AsWanted(h, s))
            => ctr'[h][s] = ctr[h][s]
<1>1. PlanesInv /\ [Next]_vars => [A]_vars
  <2> SUFFICES ASSUME PlanesInv, Next, pc # "idle",
                      NEW h \in HostsOf(conf) \ (struck' \cup raced),
                      NEW s \in Required(h),
                      ctr[h][s].st = "running", AsWanted(h, s)
               PROVE  ctr'[h][s] = ctr[h][s]
    OBVIOUS
  <2> USE DEF PlanesInv
  <2>1. h \in Hosts /\ s \in Running /\ s \in Names
    BY NameFacts DEF HostsOf, Required, Running
  <2>2. ASSUME NEW e \in AtWork, TaskStep(e) \/ CallFails(e)
        PROVE  ctr'[h][s] = ctr[h][s]
    <3>1. Effect(e) /\ Frame(e) /\ CtrFrame(e) /\ struck \subseteq struck'
      BY <2>2, CallEffect DEF Effect, Frame
    <3>2. CalmAt(h)
      BY <2>1, <3>1 DEF CalmInv, Calm
    <3>3. CASE e[1] # h
      BY <2>1, <3>1, <3>3 DEF CtrFrame
    <3>4. CASE e[1] = h /\ Svc(e) # s
      BY <2>1, <3>1, <3>4, NameFacts DEF CtrFrame, Services
    <3>5. CASE e[1] = h /\ Svc(e) = s
      <4>1. StepOK(e) /\ e[1] \notin struck'
        BY <3>2, <3>5 DEF CalmAt
      <4>2. Spares(e)
        BY <3>1, <4>1 DEF Effect
      <4> QED
        BY <3>5, <4>2 DEF Spares, Ctr
    <3> QED
      BY <3>3, <3>4, <3>5
  <2>3. ASSUME NEW k \in Hosts, NEW t \in Running, ServiceStops(k, t)
        PROVE  ctr'[h][s] = ctr[h][s]
    <3>1. h # k
      BY <2>3 DEF ServiceStops
    <3> QED
      BY <2>1, <2>3, <3>1 DEF ServiceStops, TypeInv
  <2>4. CASE ctr' = ctr
    BY <2>4
  <2> QED
    BY <2>2, <2>3, <2>4, StageStep
       DEF Next, StartUp, Abort, Serve, MachineChanges, MachineReturns, hostVars
<1>2. Spec => [][A]_vars
  BY <1>1, PlanesInvHolds, PTL DEF Spec
<1> QED
  BY <1>2 DEF UnchangedNotRestarted

-----------------------------------------------------------------------------
(* What a call does, whatever state it finds the host in.                   *)

\* What stops a call that is not hit by a fault.
Obstacle(e) ==
    CASE task[e].step \in {"restart", "compare", "stop", "start", "roll_start",
                           "rm_stop"} -> Ctr(e).st = "absent"
      [] task[e].step = "rm" -> Ctr(e).st \in {"absent", "running"}
      [] task[e].step = "restart_old" -> Parked(e).st = "absent"
      [] task[e].step = "rename" -> Ctr(e).st = "absent" \/ Parked(e).st # "absent"
      [] task[e].step \in {"create", "roll_create"} ->
            \/ Ctr(e).st # "absent"
            \/ Svc(e) # "nginx" /\ ctr[e[1]]["sidekick"].st = "absent"
      [] task[e].step = "sidekick_create" -> Ctr(e).st # "absent"
      [] task[e].step = "drop" -> Parked(e).st \in {"absent", "running"}
      [] task[e].step = "check" -> ~Healthy(e[1], Svc(e)) /\ Quiet(e)
      [] OTHER -> FALSE

GivesUp(e) ==
    /\ Quits(e) /\ failed' = TRUE /\ (clean' => clean /\ Obstacle(e))
    /\ Kept /\ excused' = excused

GoesOn == failed' = failed /\ clean' = clean

\* A call that only asks, and what it leads to.
Looks(e) ==
    /\ Stays(e) /\ Kept
    /\ \/ /\ task[e].step = "inspect" /\ excused' = excused
          /\ \/ Ctr(e).st = "absent" /\ task'[e].step = "create"
             \/ Ctr(e).st = "running" /\ task'[e].step = "compare"
       \/ /\ task[e].step = "inspect" /\ Ctr(e).st \in {"created", "exited"}
          /\ task'[e].step = "restart"
          /\ excused' = excused \cup {<<e[1], Svc(e)>>}
       \/ /\ excused' = excused
          /\ \/ /\ task[e].step = "compare" /\ task'[e].step = "list"
                /\ Ctr(e).st # "absent" /\ ~AsWanted(e[1], Svc(e))
             \/ /\ task[e].step = "list" /\ task'[e].step = "stop"
                /\ Ctr(e).st = "running"
             \/ /\ task[e].step = "wait" /\ Ctr(e).st = "absent"
                /\ task'[e].step = "roll_create"
             \/ /\ task[e].step = "wait" /\ Ctr(e).st \notin {"absent", "running"}
                /\ task'[e].step = "rename"
             \/ /\ task[e].step = "sidekick_list" /\ Ctr(e).st = "absent"
                /\ task'[e].step = "sidekick_create"
             \/ /\ task[e].step = "rm_inspect" /\ Ctr(e).st # "absent"
                /\ task'[e].step = "rm_stop"

\* What becomes of the container, and of the one parked.
Own(e) == ctr'[e[1]][Svc(e)]
Park(e) == ctr'[e[1]][OldName[Svc(e)]]
Turned(e, st) ==
    Own(e).st = st /\ Own(e).version = Ctr(e).version /\ Own(e).cmd = Ctr(e).cmd

\* A call that changes a container and leads to another call.
Works(e) ==
    /\ Stays(e) /\ excused' = excused
    /\ \/ /\ \/ task[e].step = "stop" /\ task'[e].step = "wait"
             \/ task[e].step = "rm_stop" /\ task'[e].step = "rm"
          /\ Ctr(e).st # "absent" /\ Park(e) = Parked(e)
          /\ Turned(e, IF Ctr(e).st = "created" THEN "created" ELSE "exited")
       \/ /\ task[e].step = "rename" /\ task'[e].step = "roll_create"
          /\ Ctr(e).st # "absent" /\ Parked(e).st = "absent"
          /\ Own(e).st = "absent" /\ Park(e) = Ctr(e)
       \/ /\ \/ task[e].step = "create" /\ task'[e].step = "start"
             \/ task[e].step = "roll_create" /\ task'[e].step = "roll_start"
          /\ Ctr(e).st = "absent" /\ Own(e).st = "created"
          /\ Own(e).version = Want(Svc(e)).version
          /\ Own(e).cmd = Want(Svc(e)).cmd
          /\ Park(e) = Parked(e)
       \/ /\ task[e].step = "roll_start" /\ task'[e].step = "drop"
          /\ Ctr(e).st # "absent" /\ Turned(e, "running")
          /\ Park(e) = Parked(e)

\* A call with which DoRunContainer returns: the health check comes next.
Finishes(e) ==
    /\ \/ Svc(e) = "nginx" /\ Moves(e)
       \/ Svc(e) # "nginx" /\ Stays(e) /\ task'[e].step = "check"
    /\ Svc(e) \in Running /\ excused' = excused
    /\ \/ /\ task[e].step \in {"restart", "start"} /\ Ctr(e).st # "absent"
          /\ Turned(e, "running") /\ Park(e) = Parked(e)
       \/ /\ task[e].step = "restart_old" /\ Parked(e).st # "absent"
          /\ Own(e) = Ctr(e) /\ Park(e).st = "running"
       \/ /\ task[e].step = "compare" /\ Ctr(e).st # "absent"
          /\ AsWanted(e[1], Svc(e)) /\ Kept
       \/ task[e].step = "list" /\ Ctr(e).st # "running" /\ Kept
       \/ /\ task[e].step = "drop" /\ Parked(e).st \notin {"absent", "running"}
          /\ Own(e) = Ctr(e) /\ Park(e).st = "absent"

\* A call that ends an operation.
Passes(e) ==
    /\ Moves(e) /\ excused' = excused
    /\ Svc(e) \in Running => Park(e) = Parked(e)
    /\ \/ task[e].step = "check" /\ Healthy(e[1], Svc(e)) /\ Kept
       \/ task[e].step = "sidekick_list" /\ Ctr(e).st # "absent" /\ Kept
       \/ /\ task[e].step = "sidekick_create" /\ Ctr(e).st = "absent"
          /\ Own(e).st = "created"
       \/ task[e].step = "rm_inspect" /\ Ctr(e).st = "absent" /\ Kept
       \/ /\ task[e].step = "rm" /\ Ctr(e).st \notin {"absent", "running"}
          /\ Own(e).st = "absent"

\* A process loses its port with its container.
ServeFrame(e) ==
    /\ serving' \in [Hosts -> SUBSET Names]
    /\ \A h \in Hosts \ {e[1]} : serving'[h] = serving[h]
    /\ serving'[e[1]] \in {serving[e[1]], serving[e[1]] \ {Svc(e)}}
    /\ Own(e).st = "running" => serving'[e[1]] = serving[e[1]]
    /\ Svc(e) \in serving'[e[1]] => Own(e).st = "running" \/ Own(e) = Ctr(e)

Deed(e) ==
    /\ ServeFrame(e)
    /\ \/ GivesUp(e)
       \/ GoesOn /\ (Looks(e) \/ Works(e) \/ Finishes(e) \/ Passes(e))

ServeType == serving \in [Hosts -> SUBSET Names]

LEMMA WithStateSame ==
    ASSUME NEW c \in Containers, NEW st \in States
    PROVE  /\ [c EXCEPT !.st = st].version = c.version
           /\ [c EXCEPT !.st = st].cmd = c.cmd
BY DEF Containers

LEMMA GotoFlags ==
    ASSUME NEW e, NEW st, Goto(e, st) \/ NextOp(e) \/ RunDone(e) PROVE  GoesOn
BY DEF Goto, NextOp, RunDone, NoFault, GoesOn

LEMMA RefusedFlags ==
    ASSUME NEW e, Refused(e) PROVE  failed' = TRUE /\ clean' = clean
BY DEF Refused, Fails, NoFault

LEMMA RunDoneFacts ==
    ASSUME TypeInv, TaskInv, NEW e \in AtWork, task[e].step \in RunSteps,
           RunDone(e)
    PROVE  /\ GoesOn
           /\ \/ Svc(e) = "nginx" /\ Moves(e)
              \/ Svc(e) # "nginx" /\ Stays(e) /\ task'[e].step = "check"
<1>1. "check" \in StepsOf(Head(task[e].ops))
  BY RunOp DEF RunSteps
<1>2. CASE Svc(e) = "nginx"
  BY <1>2, NextFrame, GotoFlags DEF RunDone
<1>3. CASE Svc(e) # "nginx"
  BY <1>1, <1>3, GotoFrame, GotoFlags DEF RunDone
<1> QED
  BY <1>2, <1>3

LEMMA KeptFacts ==
    ASSUME Kept, NEW e PROVE  Own(e) = Ctr(e) /\ Park(e) = Parked(e)
BY DEF Kept, Own, Park, Ctr, Parked

LEMMA KeptServe ==
    ASSUME ServeType, Kept, NEW e PROVE  ServeFrame(e)
BY DEF ServeType, Kept, ServeFrame, Own, Ctr

LEMMA SetCtrServe ==
    ASSUME TypeInv, TaskInv, ServeType, NEW e \in AtWork, NEW new \in Containers,
           SetCtr(e, new)
    PROVE  ServeFrame(e)
<1>1. e[1] \in Hosts /\ Svc(e) \in Names
  BY WorkFacts
<1>2. Own(e) = new
  BY SetCtrFrame DEF Own
<1>3. CASE new.st = "running"
  BY <1>1, <1>2, <1>3 DEF SetCtr, ServeFrame, ServeType
<1>4. CASE new.st # "running"
  <2>1. serving' = [serving EXCEPT ![e[1]] = @ \ {Svc(e)}]
    BY <1>4 DEF SetCtr
  <2>2. serving' \in [Hosts -> SUBSET Names] /\ serving'[e[1]] = serving[e[1]] \ {Svc(e)}
        /\ \A h \in Hosts \ {e[1]} : serving'[h] = serving[h]
    BY <1>1, <2>1 DEF ServeType
  <2> QED
    BY <1>2, <1>4, <2>2 DEF ServeFrame
<1> QED
  BY <1>3, <1>4

LEMMA InspectDeed ==
    ASSUME TypeInv, TaskInv, ServeType, NEW e \in AtWork, Inspect(e)
    PROVE  Deed(e)
<1>1. task[e].step = "inspect" /\ Kept /\ ServeFrame(e)
  BY KeptServe DEF Inspect, At
<1>2. StepsOf(Head(task[e].ops)) = RunSteps
  BY <1>1, RunOp DEF RunSteps
<1>3. CASE Ctr(e).st = "absent" /\ Goto(e, "create") /\ excused' = excused
  BY <1>1, <1>2, <1>3, GotoFrame, GotoFlags DEF RunSteps, Deed, Looks
<1>4. CASE Ctr(e).st = "running" /\ Goto(e, "compare") /\ excused' = excused
  BY <1>1, <1>2, <1>4, GotoFrame, GotoFlags DEF RunSteps, Deed, Looks
<1>5. CASE /\ Ctr(e).st \in {"created", "exited"} /\ Goto(e, "restart")
           /\ excused' = excused \cup {<<e[1], Svc(e)>>}
  BY <1>1, <1>2, <1>5, GotoFrame, GotoFlags DEF RunSteps, Deed, Looks
<1> QED
  BY <1>3, <1>4, <1>5 DEF Inspect

LEMMA RestartDeed ==
    ASSUME TypeInv, TaskInv, ServeType, NEW e \in AtWork, Restart(e)
    PROVE  Deed(e)
<1>1. task[e].step \in {"restart", "restart_old"} /\ excused' = excused
  BY DEF Restart, At, Others
<1>2. /\ task[e].step \in RunSteps /\ Svc(e) \in Running
      /\ OldName[Svc(e)] \in Names /\ OldName[Svc(e)] # Svc(e)
      /\ Parked(e) \in Containers
  BY <1>1, RunOp DEF RunSteps
<1>3. e[1] \in Hosts /\ Svc(e) \in Names /\ Ctr(e) \in Containers
  BY WorkFacts
<1> DEFINE n == IF At(e, "restart") THEN Svc(e) ELSE OldName[Svc(e)]
<1>4. CASE ctr[e[1]][n].st = "absent" /\ Refused(e) /\ Kept
  <2>1. Obstacle(e)
    BY <1>1, <1>4 DEF Obstacle, At, Ctr, Parked
  <2> QED
    BY <1>1, <1>4, <2>1, RefusedFrame, RefusedFlags, KeptServe DEF Deed, GivesUp
<1>5. CASE /\ ctr[e[1]][n].st # "absent"
           /\ ctr' = [ctr EXCEPT ![e[1]][n].st = "running"]
           /\ RunDone(e) /\ UNCHANGED serving
  <2>1. n \in Names /\ ctr[e[1]][n] \in Containers
    BY <1>2, <1>3 DEF TypeInv
  <2>2. /\ [ctr[e[1]][n] EXCEPT !.st = "running"] \in Containers
        /\ [ctr[e[1]][n] EXCEPT !.st = "running"].st = "running"
        /\ [ctr[e[1]][n] EXCEPT !.st = "running"].version = ctr[e[1]][n].version
        /\ [ctr[e[1]][n] EXCEPT !.st = "running"].cmd = ctr[e[1]][n].cmd
    <3> HIDE DEF n
    <3>1. "running" \in States
      BY DEF States
    <3> QED
      BY <2>1, <3>1, WithState, WithStateSame
  <2>3. ctr' = [ctr EXCEPT ![e[1]][n] = [ctr[e[1]][n] EXCEPT !.st = "running"]]
    BY <1>5
  <2>4. /\ \A m \in Names \ {n} : ctr'[e[1]][m] = ctr[e[1]][m]
        /\ ctr'[e[1]][n] = [ctr[e[1]][n] EXCEPT !.st = "running"]
    <3> HIDE DEF n
    <3> QED
      BY <1>3, <2>1, <2>2, <2>3, PutFacts DEF TypeInv
  <2>5. /\ GoesOn
        /\ \/ Svc(e) = "nginx" /\ Moves(e)
           \/ Svc(e) # "nginx" /\ Stays(e) /\ task'[e].step = "check"
    BY <1>2, <1>5, RunDoneFacts
  <2>6. CASE task[e].step = "restart"
    <3>1. n = Svc(e)
      BY <2>6 DEF At
    <3>2. Turned(e, "running") /\ Park(e) = Parked(e) /\ Ctr(e).st # "absent"
      BY <1>2, <1>5, <2>2, <2>4, <3>1 DEF Turned, Own, Park, Ctr, Parked
    <3>3. ServeFrame(e)
      BY <1>5, <3>2 DEF ServeFrame, ServeType, Turned
    <3> QED
      BY <1>1, <1>2, <2>5, <2>6, <3>2, <3>3 DEF Deed, Finishes
  <2>7. CASE task[e].step = "restart_old"
    <3>1. n = OldName[Svc(e)]
      BY <2>7 DEF At
    <3>2. Own(e) = Ctr(e) /\ Park(e).st = "running" /\ Parked(e).st # "absent"
      BY <1>2, <1>3, <1>5, <2>2, <2>4, <3>1 DEF Own, Park, Ctr, Parked
    <3>3. ServeFrame(e)
      BY <1>5, <3>2 DEF ServeFrame, ServeType
    <3> QED
      BY <1>1, <1>2, <2>5, <2>7, <3>2, <3>3 DEF Deed, Finishes
  <2> QED
    BY <1>1, <2>6, <2>7
<1> QED
  BY <1>4, <1>5 DEF Restart

LEMMA CompareDeed ==
    ASSUME TypeInv, TaskInv, ServeType, NEW e \in AtWork, Compare(e)
    PROVE  Deed(e)
<1>1. /\ task[e].step = "compare" /\ Kept /\ ServeFrame(e)
      /\ excused' = excused
  BY KeptServe DEF Compare, At, Others
<1>2. /\ task[e].step \in RunSteps /\ Svc(e) \in Running
      /\ StepsOf(Head(task[e].ops)) = RunSteps
  BY <1>1, RunOp DEF RunSteps
<1>3. CASE Ctr(e).st = "absent" /\ Refused(e)
  BY <1>1, <1>3, RefusedFrame, RefusedFlags DEF Deed, GivesUp, Obstacle
<1>4. CASE Ctr(e).st # "absent" /\ AsWanted(e[1], Svc(e)) /\ RunDone(e)
  BY <1>1, <1>2, <1>4, RunDoneFacts DEF Deed, Finishes
<1>5. CASE Ctr(e).st # "absent" /\ ~AsWanted(e[1], Svc(e)) /\ Goto(e, "list")
  BY <1>1, <1>2, <1>5, GotoFrame, GotoFlags DEF RunSteps, Deed, Looks
<1> QED
  BY <1>3, <1>4, <1>5 DEF Compare

LEMMA RollListDeed ==
    ASSUME TypeInv, TaskInv, ServeType, NEW e \in AtWork, RollList(e)
    PROVE  Deed(e)
<1>1. task[e].step = "list" /\ Kept /\ ServeFrame(e) /\ excused' = excused
  BY KeptServe DEF RollList, At, Others
<1>2. /\ task[e].step \in RunSteps /\ Svc(e) \in Running
      /\ StepsOf(Head(task[e].ops)) = RunSteps
  BY <1>1, RunOp DEF RunSteps
<1>3. CASE Ctr(e).st # "running" /\ RunDone(e)
  BY <1>1, <1>2, <1>3, RunDoneFacts DEF Deed, Finishes
<1>4. CASE Ctr(e).st = "running" /\ Goto(e, "stop")
  BY <1>1, <1>2, <1>4, GotoFrame, GotoFlags DEF RunSteps, Deed, Looks
<1> QED
  BY <1>3, <1>4 DEF RollList

LEMMA StoppedFacts ==
    ASSUME NEW c \in Containers
    PROVE  /\ Stopped(c) \in Containers /\ Stopped(c).version = c.version
           /\ Stopped(c).cmd = c.cmd
           /\ Stopped(c).st = IF c.st = "created" THEN "created" ELSE "exited"
BY WithState, WithStateSame DEF States, Stopped

LEMMA RollStopDeed ==
    ASSUME TypeInv, TaskInv, ServeType, NEW e \in AtWork, RollStop(e)
    PROVE  Deed(e)
<1>1. task[e].step = "stop" /\ excused' = excused
  BY DEF RollStop, At, Others
<1>2. /\ Svc(e) \in Running /\ StepsOf(Head(task[e].ops)) = RunSteps
  BY <1>1, RunOp DEF RunSteps
<1>3. CASE Ctr(e).st = "absent" /\ Refused(e) /\ Kept
  BY <1>1, <1>3, RefusedFrame, RefusedFlags, KeptServe DEF Deed, GivesUp, Obstacle
<1>4. CASE /\ Ctr(e).st # "absent" /\ Goto(e, "wait")
           /\ SetCtr(e, Stopped(Ctr(e)))
  <2>1. /\ Stopped(Ctr(e)) \in Containers
        /\ Stopped(Ctr(e)).version = Ctr(e).version
        /\ Stopped(Ctr(e)).cmd = Ctr(e).cmd
        /\ Stopped(Ctr(e)).st = IF Ctr(e).st = "created" THEN "created" ELSE "exited"
    BY WorkFacts, StoppedFacts
  <2>3. ServeFrame(e) /\ Own(e) = Stopped(Ctr(e)) /\ Park(e) = Parked(e)
    BY <1>2, <1>4, <2>1, SetCtrServe, SetCtrFrame DEF Own, Park
  <2>4. Stays(e) /\ task'[e].step = "wait" /\ GoesOn
    BY <1>2, <1>4, GotoFrame, GotoFlags DEF RunSteps
  <2>5. Turned(e, IF Ctr(e).st = "created" THEN "created" ELSE "exited")
    BY <2>1, <2>3 DEF Turned
  <2> QED
    BY <1>1, <1>4, <2>3, <2>4, <2>5 DEF Deed, Works
<1> QED
  BY <1>3, <1>4 DEF RollStop

LEMMA RollWaitDeed ==
    ASSUME TypeInv, TaskInv, ServeType, NEW e \in AtWork, RollWait(e)
    PROVE  Deed(e)
<1>1. task[e].step = "wait" /\ Kept /\ ServeFrame(e) /\ excused' = excused
      /\ Ctr(e).st # "running"
  BY KeptServe DEF RollWait, At, Others
<1>2. StepsOf(Head(task[e].ops)) = RunSteps
  BY <1>1, RunOp DEF RunSteps
<1>3. CASE Ctr(e).st = "absent" /\ Goto(e, "roll_create")
  BY <1>1, <1>2, <1>3, GotoFrame, GotoFlags DEF RunSteps, Deed, Looks
<1>4. CASE Ctr(e).st # "absent" /\ Goto(e, "rename")
  BY <1>1, <1>2, <1>4, GotoFrame, GotoFlags DEF RunSteps, Deed, Looks
<1> QED
  BY <1>3, <1>4 DEF RollWait

LEMMA RollRenameDeed ==
    ASSUME TypeInv, TaskInv, ServeType, NEW e \in AtWork, RollRename(e)
    PROVE  Deed(e)
<1>1. task[e].step = "rename" /\ excused' = excused
  BY DEF RollRename, At, Others
<1>2. /\ Svc(e) \in Running /\ StepsOf(Head(task[e].ops)) = RunSteps
      /\ OldName[Svc(e)] \in Names /\ OldName[Svc(e)] # Svc(e)
      /\ Parked(e) \in Containers
  BY <1>1, RunOp DEF RunSteps
<1>3. /\ e \in Entries /\ e[1] \in Hosts /\ Svc(e) \in Names
      /\ Ctr(e) \in Containers /\ task[e] \in Tasks
  BY WorkFacts
<1>4. CASE /\ ~(Ctr(e).st # "absent" /\ Parked(e).st = "absent")
           /\ Refused(e) /\ Kept
  BY <1>1, <1>4, RefusedFrame, RefusedFlags, KeptServe DEF Deed, GivesUp, Obstacle
<1>5. CASE /\ Ctr(e).st # "absent" /\ Parked(e).st = "absent"
           /\ ctr' = [ctr EXCEPT ![e[1]][Svc(e)] = NoContainer,
                                 ![e[1]][OldName[Svc(e)]] = Ctr(e)]
           /\ serving' = [serving EXCEPT ![e[1]] = @ \ {Svc(e)}]
           /\ task'[e] = [task[e] EXCEPT !.step = "roll_create"]
           /\ NoFault /\ failed' = failed
  <2>1. Own(e) = NoContainer /\ Park(e) = Ctr(e)
    <3> DEFINE mid == [ctr EXCEPT ![e[1]][Svc(e)] = NoContainer]
    <3>1. /\ mid \in [Hosts -> [Names -> Containers]]
          /\ mid[e[1]][Svc(e)] = NoContainer
      BY <1>3, NoContainerType, PutFacts DEF TypeInv
    <3>2. ctr' = [mid EXCEPT ![e[1]][OldName[Svc(e)]] = Ctr(e)]
      BY <1>5
    <3> HIDE DEF mid
    <3> QED
      BY <1>2, <1>3, <3>1, <3>2, PutFacts DEF Own, Park
  <2>2. Own(e).st = "absent"
    BY <2>1, NoContainerType
  <2>3. /\ serving' \in [Hosts -> SUBSET Names]
        /\ serving'[e[1]] = serving[e[1]] \ {Svc(e)}
        /\ \A h \in Hosts \ {e[1]} : serving'[h] = serving[h]
    BY <1>3, <1>5 DEF ServeType
  <2>4. ServeFrame(e)
    BY <2>2, <2>3 DEF ServeFrame
  <2>5. /\ task'[e] \in Tasks /\ task'[e].ops = task[e].ops
        /\ task'[e].step = "roll_create"
    <3>1. "roll_create" \in Steps
      BY DEF Steps, RunSteps
    <3> QED
      BY <1>3, <1>5, <3>1 DEF Tasks
  <2>6. Stays(e) /\ GoesOn
    BY <1>2, <1>5, <2>5 DEF Stays, GoesOn, NoFault, RunSteps
  <2> QED
    BY <1>1, <1>5, <2>1, <2>2, <2>4, <2>5, <2>6 DEF Deed, Works
<1> QED
  <2> SUFFICES ASSUME Ctr(e).st # "absent", Parked(e).st = "absent",
                      task' = [o \in Entries |->
                        CASE o = e -> [task[o] EXCEPT !.step = "roll_create"]
                          [] /\ o \in AtWork \ {e} /\ o[1] = e[1]
                             /\ At(o, "restart") /\ Svc(o) = Svc(e)
                             -> [task[o] EXCEPT !.step = "restart_old"]
                          [] OTHER -> task[o]]
               PROVE  task'[e] = [task[e] EXCEPT !.step = "roll_create"]
    BY <1>4, <1>5 DEF RollRename
  <2> QED
    BY <1>3

LEMMA CreateContainerDeed ==
    ASSUME TypeInv, TaskInv, ServeType, NEW e \in AtWork, CreateContainer(e)
    PROVE  Deed(e)
<1>1. task[e].step \in {"create", "roll_create"} /\ excused' = excused
  BY DEF CreateContainer, At, Others
<1>2. /\ Svc(e) \in Running /\ StepsOf(Head(task[e].ops)) = RunSteps
      /\ Svc(e) \in Services
  BY <1>1, RunOp DEF RunSteps, Services
<1> DEFINE ok == /\ Ctr(e).st = "absent"
                 /\ Svc(e) # "nginx" => ctr[e[1]]["sidekick"].st # "absent"
           next == IF At(e, "create") THEN "start" ELSE "roll_start"
<1>3. CASE ~ok /\ Refused(e) /\ Kept
  BY <1>1, <1>3, RefusedFrame, RefusedFlags, KeptServe DEF Deed, GivesUp, Obstacle
<1>4. CASE ok /\ SetCtr(e, Create(Svc(e), "created")) /\ Goto(e, next)
  <2>1. /\ Create(Svc(e), "created") \in Containers
        /\ Create(Svc(e), "created").st = "created"
        /\ Create(Svc(e), "created").version = Want(Svc(e)).version
        /\ Create(Svc(e), "created").cmd = Want(Svc(e)).cmd
    <3>1. "created" \in States
      BY DEF States
    <3> QED
      BY <1>2, <3>1, CreateType DEF Create
  <2>2. ServeFrame(e) /\ Own(e) = Create(Svc(e), "created") /\ Park(e) = Parked(e)
    BY <1>2, <1>4, <2>1, SetCtrServe, SetCtrFrame DEF Own, Park
  <2>3. next \in RunSteps
    BY DEF RunSteps
  <2>4. Stays(e) /\ task'[e].step = next /\ GoesOn
    BY <1>2, <1>4, <2>3, GotoFrame, GotoFlags
  <2> QED
    BY <1>1, <1>4, <2>1, <2>2, <2>4 DEF Deed, Works, At
<1> QED
  BY <1>3, <1>4 DEF CreateContainer

LEMMA StartContainerDeed ==
    ASSUME TypeInv, TaskInv, ServeType, NEW e \in AtWork, StartContainer(e)
    PROVE  Deed(e)
<1>1. task[e].step \in {"start", "roll_start"} /\ excused' = excused
  BY DEF StartContainer, At, Others
<1>2. /\ task[e].step \in RunSteps
      /\ Svc(e) \in Running /\ StepsOf(Head(task[e].ops)) = RunSteps
  BY <1>1, RunOp DEF RunSteps
<1>3. CASE Ctr(e).st = "absent" /\ Refused(e) /\ Kept
  BY <1>1, <1>3, RefusedFrame, RefusedFlags, KeptServe DEF Deed, GivesUp, Obstacle
<1>4. CASE /\ Ctr(e).st # "absent"
           /\ SetCtr(e, [Ctr(e) EXCEPT !.st = "running"])
           /\ IF At(e, "start") THEN RunDone(e) ELSE Goto(e, "drop")
  <2> DEFINE new == [Ctr(e) EXCEPT !.st = "running"]
  <2>1. /\ new \in Containers /\ new.version = Ctr(e).version
        /\ new.cmd = Ctr(e).cmd /\ new.st = "running"
    BY WorkFacts, WithState, WithStateSame DEF States
  <2>2. SetCtr(e, new)
    BY <1>4
  <2> HIDE DEF new
  <2>3. ServeFrame(e) /\ Own(e) = new /\ Park(e) = Parked(e)
    BY <1>2, <2>1, <2>2, SetCtrServe, SetCtrFrame DEF Own, Park
  <2>4. Turned(e, "running")
    BY <2>1, <2>3 DEF Turned
  <2>5. CASE task[e].step = "start"
    BY <1>1, <1>2, <1>4, <2>3, <2>4, <2>5, RunDoneFacts DEF Deed, Finishes, At
  <2>6. CASE task[e].step = "roll_start"
    <3>1. Stays(e) /\ task'[e].step = "drop" /\ GoesOn
      BY <1>2, <1>4, <2>6, GotoFrame, GotoFlags DEF RunSteps, At
    <3> QED
      BY <1>1, <1>4, <2>3, <2>4, <2>6, <3>1 DEF Deed, Works
  <2> QED
    BY <1>1, <2>5, <2>6
<1> QED
  BY <1>3, <1>4 DEF StartContainer

LEMMA RollRemoveDeed ==
    ASSUME TypeInv, TaskInv, ServeType, NEW e \in AtWork, RollRemove(e)
    PROVE  Deed(e)
<1>1. task[e].step = "drop" /\ excused' = excused
  BY DEF RollRemove, At, Others
<1>2. /\ task[e].step \in RunSteps /\ Svc(e) \in Running
      /\ OldName[Svc(e)] \in Names /\ OldName[Svc(e)] # Svc(e)
  BY <1>1, RunOp DEF RunSteps
<1>3. e[1] \in Hosts /\ Svc(e) \in Names
  BY WorkFacts
<1>4. CASE Parked(e).st \in {"absent", "running"} /\ Refused(e) /\ Kept
  BY <1>1, <1>4, RefusedFrame, RefusedFlags, KeptServe DEF Deed, GivesUp, Obstacle
<1>5. CASE /\ Parked(e).st \notin {"absent", "running"}
           /\ ctr' = [ctr EXCEPT ![e[1]][OldName[Svc(e)]] = NoContainer]
           /\ RunDone(e) /\ UNCHANGED serving
  <2>1. Own(e) = Ctr(e) /\ Park(e) = NoContainer
    BY <1>2, <1>3, <1>5, NoContainerType, PutFacts DEF TypeInv, Own, Park, Ctr
  <2>2. ServeFrame(e)
    BY <1>5, <2>1 DEF ServeFrame, ServeType
  <2> QED
    BY <1>1, <1>2, <1>5, <2>1, <2>2, RunDoneFacts, NoContainerType
       DEF Deed, Finishes
<1> QED
  BY <1>4, <1>5 DEF RollRemove

LEMMA RunSidekickDeed ==
    ASSUME TypeInv, TaskInv, ServeType, NEW e \in AtWork, RunSidekick(e)
    PROVE  Deed(e)
<1>1. task[e].step \in {"sidekick_list", "sidekick_create"} /\ excused' = excused
  BY DEF RunSidekick, At, Others
<1>2. /\ Svc(e) = "sidekick"
      /\ StepsOf(Head(task[e].ops)) = {"sidekick_list", "sidekick_create"}
  BY <1>1, SideOp
<1>3. CASE /\ task[e].step = "sidekick_list" /\ Ctr(e).st = "absent"
           /\ Goto(e, "sidekick_create") /\ Kept
  BY <1>1, <1>2, <1>3, GotoFrame, GotoFlags, KeptServe DEF Deed, Looks
<1>4. CASE /\ task[e].step = "sidekick_list" /\ Ctr(e).st # "absent"
           /\ NextOp(e) /\ Kept
  BY <1>1, <1>2, <1>4, NextFrame, GotoFlags, KeptServe, KeptFacts
     DEF Deed, Passes
<1>5. CASE /\ task[e].step = "sidekick_create" /\ Ctr(e).st = "absent"
           /\ SetCtr(e, Create("sidekick", "created")) /\ NextOp(e)
  <2>1. /\ Create("sidekick", "created") \in Containers
        /\ Create("sidekick", "created").st = "created"
    BY CreateType DEF States, Services
  <2>2. ServeFrame(e) /\ Own(e) = Create("sidekick", "created")
    BY <1>5, <2>1, SetCtrServe, SetCtrFrame DEF Own
  <2> QED
    BY <1>1, <1>2, <1>5, <2>1, <2>2, NextFrame, GotoFlags, NameFacts
       DEF Deed, Passes
<1>6. CASE /\ task[e].step = "sidekick_create" /\ Ctr(e).st # "absent"
           /\ Refused(e) /\ Kept
  BY <1>1, <1>6, RefusedFrame, RefusedFlags, KeptServe DEF Deed, GivesUp, Obstacle
<1> QED
  BY <1>3, <1>4, <1>5, <1>6 DEF RunSidekick, At

LEMMA RemoveNginxProxyDeed ==
    ASSUME TypeInv, TaskInv, ServeType, NEW e \in AtWork, RemoveNginxProxy(e)
    PROVE  Deed(e)
<1>1. task[e].step \in {"rm_inspect", "rm_stop", "rm"} /\ excused' = excused
  BY DEF RemoveNginxProxy, At, Others
<1>2. StepsOf(Head(task[e].ops)) = {"rm_inspect", "rm_stop", "rm"}
  BY <1>1, RemoveOp
<1>3. CASE /\ task[e].step = "rm_inspect" /\ Ctr(e).st # "absent"
           /\ Goto(e, "rm_stop") /\ Kept
  BY <1>1, <1>2, <1>3, GotoFrame, GotoFlags, KeptServe DEF Deed, Looks
<1>4. CASE /\ task[e].step = "rm_inspect" /\ Ctr(e).st = "absent"
           /\ NextOp(e) /\ Kept
  BY <1>1, <1>4, NextFrame, GotoFlags, KeptServe, KeptFacts
     DEF Deed, Passes
<1>5. CASE /\ task[e].step = "rm" /\ Ctr(e).st \notin {"absent", "running"}
           /\ SetCtr(e, NoContainer) /\ NextOp(e)
  <2>1. /\ ServeFrame(e) /\ Own(e) = NoContainer
        /\ Svc(e) \in Running => Park(e) = Parked(e)
    BY <1>5, NoContainerType, SetCtrServe, SetCtrFrame DEF Own, Park
  <2> QED
    BY <1>1, <1>5, <2>1, NoContainerType, NextFrame, GotoFlags DEF Deed, Passes
<1>6. CASE /\ \/ task[e].step = "rm_stop" /\ Ctr(e).st = "absent"
              \/ task[e].step = "rm" /\ Ctr(e).st \in {"absent", "running"}
           /\ Refused(e) /\ Kept
  BY <1>1, <1>6, RefusedFrame, RefusedFlags, KeptServe DEF Deed, GivesUp, Obstacle
<1>7. CASE /\ task[e].step = "rm_stop" /\ Ctr(e).st # "absent" /\ Goto(e, "rm")
           /\ SetCtr(e, Stopped(Ctr(e)))
  <2>1. /\ Stopped(Ctr(e)) \in Containers
        /\ Stopped(Ctr(e)).version = Ctr(e).version
        /\ Stopped(Ctr(e)).cmd = Ctr(e).cmd
        /\ Stopped(Ctr(e)).st = IF Ctr(e).st = "created" THEN "created" ELSE "exited"
    BY WorkFacts, StoppedFacts
  <2>2. Svc(e) \in Running
    BY <1>1, RemoveOp, NameFacts
  <2>3. ServeFrame(e) /\ Own(e) = Stopped(Ctr(e)) /\ Park(e) = Parked(e)
    BY <1>7, <2>1, <2>2, SetCtrServe, SetCtrFrame DEF Own, Park
  <2>4. Stays(e) /\ task'[e].step = "rm" /\ GoesOn
    BY <1>2, <1>7, GotoFrame, GotoFlags
  <2>5. Turned(e, IF Ctr(e).st = "created" THEN "created" ELSE "exited")
    BY <2>1, <2>3 DEF Turned
  <2> QED
    BY <1>1, <1>7, <2>3, <2>4, <2>5 DEF Deed, Works
<1> QED
  BY <1>3, <1>4, <1>5, <1>6, <1>7 DEF RemoveNginxProxy, At

LEMMA RunHealthcheckDeed ==
    ASSUME TypeInv, TaskInv, ServeType, NEW e \in AtWork, RunHealthcheck(e)
    PROVE  Deed(e)
<1>1. task[e].step = "check" /\ Kept /\ ServeFrame(e) /\ excused' = excused
  BY KeptServe DEF RunHealthcheck, At, Others
<1>2. CASE Healthy(e[1], Svc(e)) /\ NextOp(e)
  BY <1>1, <1>2, NextFrame, GotoFlags, KeptFacts DEF Deed, Passes
<1>3. CASE /\ ~Healthy(e[1], Svc(e)) /\ Fails(e)
           /\ IF Quiet(e) THEN NoFault /\ UNCHANGED struck
              ELSE Fault /\ struck' = struck \cup {e[1]}
  <2>1. Quits(e) /\ failed' = TRUE
    BY <1>3, FailsFrame DEF Fails
  <2>2. clean' => clean /\ Quiet(e)
    BY <1>3 DEF NoFault, Fault
  <2>3. Quiet(e) => Obstacle(e)
    BY <1>1, <1>3 DEF Obstacle
  <2> QED
    BY <1>1, <2>1, <2>2, <2>3 DEF Deed, GivesUp
<1> QED
  BY <1>2, <1>3 DEF RunHealthcheck

LEMMA CallFailsDeed ==
    ASSUME TypeInv, TaskInv, ServeType, NEW e \in AtWork, CallFails(e)
    PROVE  Deed(e)
BY KeptServe, FailsFrame DEF CallFails, Fails, Fault, Others, Deed, GivesUp

LEMMA CallDeed ==
    ASSUME TypeInv, TaskInv, ServeType, NEW e \in AtWork,
           TaskStep(e) \/ CallFails(e)
    PROVE  Deed(e) /\ Frame(e) /\ TaskFrame(e) /\ CtrFrame(e)
<1>1. Frame(e) /\ TaskFrame(e) /\ CtrFrame(e)
  BY CallEffect DEF Effect, Frame
<1>2. Deed(e)
  BY InspectDeed, RestartDeed, CompareDeed, RollListDeed, RollStopDeed,
     RollWaitDeed, RollRenameDeed, CreateContainerDeed, StartContainerDeed,
     RollRemoveDeed, RunSidekickDeed, RemoveNginxProxyDeed,
     RunHealthcheckDeed, CallFailsDeed DEF TaskStep
<1> QED
  BY <1>1, <1>2

-----------------------------------------------------------------------------
(* What a run achieves.                                                     *)

\* What is left to do, and what a goroutine of the stage has to do on the host.
Left(ops) == {ops[i] : i \in DOMAIN ops}
Duties(stage, h) ==
    Left(IF stage = "control" THEN ControlOps(h) ELSE WorkerOps(h)) \cap Running

\* A stage the run has entered, an entry of it, and a service that has neither
\* an excuse nor an error.
Rank == [control |-> 1, worker_etcd |-> 2, worker_control |-> 3,
         worker_worker |-> 4]
Due(stage, e, s) ==
    /\ pc \in Stages /\ Rank[stage] <= Rank[pc]
    /\ e \in Members(stage) /\ s \in Duties(stage, e[1])
    /\ <<e[1], s>> \notin excused /\ ~failed

\* How far the goroutine has come with s: it has looked at the container; it
\* has only the health check left; it has gone on.
Earlier(stage) == Rank[stage] < Rank[pc]
Begun(stage, e, s) ==
    Earlier(stage) \/ (s \in Left(task[e].ops) =>
                          Head(task[e].ops) = s /\ task[e].step # "inspect")
Brought(stage, e, s) ==
    Earlier(stage) \/ (s \in Left(task[e].ops) =>
                          Head(task[e].ops) = s /\ task[e].step = "check")
Gone(stage, e, s) == Earlier(stage) \/ s \notin Left(task[e].ops)

\* A goroutine is at one of these steps with service s of h.
Somebody(h, s, steps) ==
    \E o \in AtWork : o[1] = h /\ Svc(o) = s /\ task[o].step \in steps

\* A container of this run, or none.
Fresh(h, s) == ctr[h][s].st = "absent" \/ AsWanted(h, s)

\* Whoever creates, starts or drops a container works on one of this run.
Replacing == {"create", "roll_create", "start", "roll_start", "drop"}
FreshInv == \A e \in AtWork : task[e].step \in Replacing => Fresh(e[1], Svc(e))

\* A container found stopped is started as it is, which is noted, and
\* nginx-proxy has no health check.
StepInv ==
    \A e \in AtWork :
        /\ task[e].step \in {"restart", "restart_old"} => <<e[1], Svc(e)>> \in excused
        /\ task[e].step = "check" => Svc(e) # "nginx"

\* A service that somebody has looked at runs, or somebody will start it.
Pausing == {"wait", "rename", "create", "roll_create", "start", "roll_start"}
RunsInv ==
    \A stage \in Stages : \A e \in Entries : \A s \in Running :
        (Due(stage, e, s) /\ Begun(stage, e, s))
        => ctr[e[1]][s].st = "running" \/ Somebody(e[1], s, Pausing)

\* A service that somebody has brought up is as configured, or somebody will
\* replace it.
WantedInv ==
    \A stage \in Stages : \A e \in Entries : \A s \in Running :
        (Due(stage, e, s) /\ Brought(stage, e, s))
        => Fresh(e[1], s) \/ Somebody(e[1], s, {"wait", "rename"})

\* Where no role is listed twice, a service that has passed the health check
\* keeps its port, and nobody does anything to it.
ServesInv ==
    \A stage \in Stages : \A e \in Entries : \A s \in Running :
        (/\ Due(stage, e, s) /\ Gone(stage, e, s)
         /\ e[1] \notin raced /\ s # "nginx")
        => /\ ctr[e[1]][s].st = "running" /\ AsWanted(e[1], s)
           /\ s \in serving[e[1]] \/ (s = "api" /\ PortTaken(e[1]))
           /\ \A o \in AtWork : (o[1] = e[1] /\ Svc(o) = s)
                                => task[o].step \in {"inspect", "compare", "check"}

\* A process that serves is that of a container that runs.
ServingInv ==
    /\ ServeType
    /\ \A h \in Hosts : \A n \in serving[h] : ctr[h][n].st = "running"

\* nginx-proxy runs only off the control plane; a control host that is also a
\* worker gets rid of it first.
ProxyInv ==
    \A e \in AtWork :
        /\ Head(task[e].ops) = "remove_nginx" => Is(conf, e[1], "worker")
        /\ (pc # "control" /\ Is(conf, e[1], "controlplane"))
           => Head(task[e].ops) # "nginx"
        /\ (/\ pc = "control" /\ Is(conf, e[1], "worker")
            /\ Head(task[e].ops) # "remove_nginx")
           => ctr[e[1]]["nginx"].st = "absent"

\* Where no role is listed twice, a parked container never runs.
OldInv ==
    \A h \in Hosts \ raced :
        /\ \A s \in Running : ctr[h][OldName[s]].st # "running"
        /\ \A e \in AtWork :
              e[1] = h => /\ task[e].step # "restart_old"
                          /\ task[e].step = "rename" => Ctr(e).st # "running"

\* What the container is like at each step of a run without faults.
CleanStates(step) ==
    IF step \in {"create", "roll_create", "sidekick_create"} THEN {"absent"}
    ELSE IF step \in {"start", "roll_start"} THEN {"created"}
    ELSE IF step \in {"compare", "list", "stop", "drop", "check"} THEN {"running"}
    ELSE IF step \in {"wait", "rename"} THEN {"exited"}
    ELSE IF step \in {"restart", "rm_stop"} THEN States \ {"absent"}
    ELSE IF step = "rm" THEN {"created", "exited"}
    ELSE States

CleanOK(e) ==
    /\ Ctr(e).st \in CleanStates(task[e].step)
    /\ task[e].step \in Rolling => Parked(e).st = "exited"
    /\ Svc(e) \in Running \ {"nginx"} => ctr[e[1]]["sidekick"].st # "absent"

CleanInv == clean => \A e \in AtWork : e[1] \notin raced => CleanOK(e)

\* A run without faults fails for a reason that lasts.
Hindered(h) ==
    h \in raced \/ ((LeftOver(h) \/ PortTaken(h)) /\ \A e \in AtWork : e[1] # h)
FailInv ==
    /\ failed \in BOOLEAN /\ (failed => pc \in Stages)
    /\ (failed /\ clean) => \E h \in HostsOf(conf) : Hindered(h)

\* How runs end.
RunInv ==
    /\ pc # "idle" => result = "none" /\ conf \in Configs
    /\ pc \in Stages => ValidateCluster(conf)
    /\ AsConfigured /\ CleanRunSucceeds

UpInv == /\ FreshInv /\ StepInv /\ RunsInv /\ WantedInv /\ ServesInv
         /\ ServingInv /\ ProxyInv /\ OldInv /\ CleanInv /\ FailInv /\ RunInv

-----------------------------------------------------------------------------
(* Duties.                                                                  *)

LEMMA LeftLists ==
    /\ Left(<<>>) = {}
    /\ Left(<<"remove_nginx", "sidekick", "api", "controller", "scheduler">>) =
          {"remove_nginx", "sidekick", "api", "controller", "scheduler"}
    /\ Left(<<"sidekick", "api", "controller", "scheduler">>) =
          {"sidekick", "api", "controller", "scheduler"}
    /\ Left(<<"api", "controller", "scheduler">>) =
          {"api", "controller", "scheduler"}
    /\ Left(<<"controller", "scheduler">>) = {"controller", "scheduler"}
    /\ Left(<<"scheduler">>) = {"scheduler"}
    /\ Left(<<"nginx", "sidekick", "kubelet", "kubeproxy">>) =
          {"nginx", "sidekick", "kubelet", "kubeproxy"}
    /\ Left(<<"sidekick", "kubelet", "kubeproxy">>) =
          {"sidekick", "kubelet", "kubeproxy"}
    /\ Left(<<"kubelet", "kubeproxy">>) = {"kubelet", "kubeproxy"}
    /\ Left(<<"kubeproxy">>) = {"kubeproxy"}
<1>1. Left(<<>>) = {}
  BY DEF Left
<1>2. Left(<<"remove_nginx", "sidekick", "api", "controller", "scheduler">>) =
        {"remove_nginx", "sidekick", "api", "controller", "scheduler"}
  BY DEF Left
<1>3. Left(<<"sidekick", "api", "controller", "scheduler">>) =
        {"sidekick", "api", "controller", "scheduler"}
  BY DEF Left
<1>4. Left(<<"api", "controller", "scheduler">>) =
        {"api", "controller", "scheduler"}
  BY DEF Left
<1>5. Left(<<"controller", "scheduler">>) = {"controller", "scheduler"}
  BY DEF Left
<1>6. Left(<<"scheduler">>) = {"scheduler"}
  BY DEF Left
<1>7. Left(<<"nginx", "sidekick", "kubelet", "kubeproxy">>) =
        {"nginx", "sidekick", "kubelet", "kubeproxy"}
  BY DEF Left
<1>8. Left(<<"sidekick", "kubelet", "kubeproxy">>) =
        {"sidekick", "kubelet", "kubeproxy"}
  BY DEF Left
<1>9. Left(<<"kubelet", "kubeproxy">>) = {"kubelet", "kubeproxy"}
  BY DEF Left
<1>10. Left(<<"kubeproxy">>) = {"kubeproxy"}
  BY DEF Left
<1> QED
  BY <1>1, <1>2, <1>3, <1>4, <1>5, <1>6, <1>7, <1>8, <1>9, <1>10

\* An operation done is the first of what was left.
LEMMA LeftFacts ==
    ASSUME NEW p, NEW ops \in Plan(p)
    PROVE  Head(ops) \in Left(ops) /\ Left(Tail(ops)) = Left(ops) \ {Head(ops)}
<1>1. ops \in ControlTails \cup WorkerTails
  BY DEF Plan
<1>2. CASE ops = <<"remove_nginx", "sidekick", "api", "controller", "scheduler">>
  BY <1>2, LeftLists, HeadFacts, TailFacts
<1>3. CASE ops = <<"sidekick", "api", "controller", "scheduler">>
  BY <1>3, LeftLists, HeadFacts, TailFacts
<1>4. CASE ops = <<"api", "controller", "scheduler">>
  BY <1>4, LeftLists, HeadFacts, TailFacts
<1>5. CASE ops = <<"controller", "scheduler">>
  BY <1>5, LeftLists, HeadFacts, TailFacts
<1>6. CASE ops = <<"scheduler">>
  BY <1>6, LeftLists, HeadFacts, TailFacts
<1>7. CASE ops = <<"nginx", "sidekick", "kubelet", "kubeproxy">>
  BY <1>7, LeftLists, HeadFacts, TailFacts
<1>8. CASE ops = <<"sidekick", "kubelet", "kubeproxy">>
  BY <1>8, LeftLists, HeadFacts, TailFacts
<1>9. CASE ops = <<"kubelet", "kubeproxy">>
  BY <1>9, LeftLists, HeadFacts, TailFacts
<1>10. CASE ops = <<"kubeproxy">>
  BY <1>10, LeftLists, HeadFacts, TailFacts
<1> QED
  BY <1>1, <1>2, <1>3, <1>4, <1>5, <1>6, <1>7, <1>8, <1>9, <1>10
     DEF ControlTails, WorkerTails

\* What a stage is for.
LEMMA DutyFacts ==
    ASSUME NEW stage, NEW h
    PROVE  /\ stage = "control" =>
                 Duties(stage, h) = {"api", "controller", "scheduler"}
           /\ stage # "control" =>
                 Duties(stage, h) = {"kubelet", "kubeproxy"} \cup
                    IF Is(conf, h, "controlplane") THEN {} ELSE {"nginx"}
<1>1. CASE stage = "control"
  <2>1. Left(ControlOps(h)) \in
           {{"remove_nginx", "sidekick", "api", "controller", "scheduler"},
            {"sidekick", "api", "controller", "scheduler"}}
    BY ControlStart, LeftLists
  <2> QED
    BY <1>1, <2>1 DEF Duties, Running
<1>2. CASE stage # "control"
  <2>1. CASE Is(conf, h, "controlplane")
    <3>1. WorkerOps(h) = <<"sidekick", "kubelet", "kubeproxy">>
      BY <2>1 DEF WorkerOps
    <3> QED
      BY <1>2, <2>1, <3>1, LeftLists DEF Duties, Running
  <2>2. CASE ~Is(conf, h, "controlplane")
    <3>1. WorkerOps(h) = <<"nginx", "sidekick", "kubelet", "kubeproxy">>
      <4>1. WorkerOps(h) = <<"nginx">> \o <<"sidekick", "kubelet", "kubeproxy">>
        BY <2>2 DEF WorkerOps
      <4>2. Head(WorkerOps(h)) = "nginx"
        BY <4>1
      <4> QED
        BY <4>2, WorkerStart, HeadFacts
    <3> QED
      BY <1>2, <2>2, <3>1, LeftLists DEF Duties, Running
  <2> QED
    BY <2>1, <2>2
<1> QED
  BY <1>1, <1>2

-----------------------------------------------------------------------------
(* What a call leaves alone.                                                *)

LEMMA WantConst ==
    ASSUME conf' = conf, NEW s PROVE  Want(s)' = Want(s)
<1>1. \A r : Listed(r)' = Listed(r)
  BY DEF Listed, Is, Times
<1> QED
  BY <1>1 DEF Want, BuildKubeAPIConfig, BuildKubeControllerConfig,
     BuildSchedulerConfig, BuildKubeletConfig, BuildKubeproxyConfig,
     BuildNginxProxyConfig, BuildSidekickConfig

LEMMA FreshSame ==
    ASSUME conf' = conf, NEW h, NEW s, ctr'[h][s] = ctr[h][s]
    PROVE  /\ AsWanted(h, s)' <=> AsWanted(h, s)
           /\ Fresh(h, s)' <=> Fresh(h, s)
BY WantConst DEF AsWanted, Fresh

LEMMA ConfSame ==
    ASSUME conf' = conf
    PROVE  /\ \A h, r : Is(conf, h, r)' <=> Is(conf, h, r)
           /\ \A p : Members(p)' = Members(p)
           /\ \A p, h : Duties(p, h)' = Duties(p, h)
BY DEF Is, Members, Times, Duties, ControlOps, WorkerOps

\* The other goroutines.
LEMMA OtherTasks ==
    ASSUME TypeInv, TaskInv, NEW e \in AtWork, TaskFrame(e),
           NEW o \in Entries, o # e
    PROVE  /\ o \in AtWork' <=> o \in AtWork
           /\ task'[o].ops = task[o].ops /\ Svc(o)' = Svc(o)
           /\ o[1] # e[1] \/ e[1] \notin raced => task'[o] = task[o]
           /\ \/ task'[o].step = task[o].step
              \/ task[o].step = "restart" /\ task'[o].step = "restart_old"
<1>1. task[o] \in Tasks /\ Done \in Tasks
  BY DoneType DEF TypeInv
<1>2. task'[o] = task[o] \/ Follows(e, o)
  BY DEF TaskFrame
<1>3. CASE task'[o] = task[o]
  BY <1>3 DEF AtWork, Svc
<1>4. CASE Follows(e, o)
  <2>1. /\ o \in AtWork /\ o[1] = e[1] /\ task[o].step = "restart"
        /\ task'[o] = [task[o] EXCEPT !.step = "restart_old"]
    BY <1>4 DEF Follows
  <2>2. task'[o].ops = task[o].ops /\ task'[o].step = "restart_old"
    BY <1>1, <2>1 DEF Tasks
  <2>3. task'[o] # Done
    BY <2>2 DEF Done
  <2>4. e[1] \in raced
    BY <2>1, OneGoroutine
  <2> QED
    BY <2>1, <2>2, <2>3, <2>4 DEF AtWork, Svc
<1> QED
  BY <1>2, <1>3, <1>4

\* The goroutine itself.
LEMMA OwnTask ==
    ASSUME TypeInv, TaskInv, NEW e \in AtWork
    PROVE  /\ Stays(e) => /\ e \in AtWork' /\ Svc(e)' = Svc(e)
                          /\ task'[e].ops = task[e].ops
           /\ Quits(e) => e \notin AtWork' /\ Left(task'[e].ops) = {}
           /\ Moves(e) => /\ task'[e].ops = Tail(task[e].ops)
                          /\ Left(task'[e].ops) =
                                Left(task[e].ops) \ {Head(task[e].ops)}
           /\ (Moves(e) /\ e \in AtWork') =>
                 /\ task'[e].step \in {"inspect", "sidekick_list"}
                 /\ task'[e].step = "sidekick_list" <=> Svc(e)' = "sidekick"
                 /\ Svc(e)' \in Services /\ Svc(e)' \notin {"nginx", Svc(e)}
                 /\ Head(task'[e].ops) \notin {"remove_nginx", "nginx"}
                 /\ Svc(e)' # "sidekick" => Svc(e) \in {"sidekick"} \cup (Running \ {"nginx"})
<1>1. /\ e \in Entries /\ task[e].ops \in Plan(pc) /\ task[e].ops # <<>>
      /\ Head(task[e].ops) \in Running \cup {"sidekick", "remove_nginx"}
  BY WorkFacts
<1>2. Stays(e) => /\ e \in AtWork' /\ Svc(e)' = Svc(e)
                  /\ task'[e].ops = task[e].ops
  BY <1>1, DoneType DEF Stays, AtWork, Svc
<1>3. Quits(e) => e \notin AtWork' /\ Left(task'[e].ops) = {}
  BY DoneType, LeftLists DEF Quits, AtWork
<1> DEFINE ops == Tail(task[e].ops)
<1>4. Moves(e) => task'[e].ops = ops
  BY BeginFacts, DoneType DEF Moves
<1>5. Left(ops) = Left(task[e].ops) \ {Head(task[e].ops)}
  BY <1>1, LeftFacts
<1>6. ASSUME Moves(e), e \in AtWork'
      PROVE  /\ task'[e].step \in {"inspect", "sidekick_list"}
             /\ task'[e].step = "sidekick_list" <=> Svc(e)' = "sidekick"
             /\ Svc(e)' \in Services /\ Svc(e)' \notin {"nginx", Svc(e)}
             /\ Head(task'[e].ops) \notin {"remove_nginx", "nginx"}
             /\ Svc(e)' # "sidekick" => Svc(e) \in {"sidekick"} \cup (Running \ {"nginx"})
  <2>1. ops # <<>>
    BY <1>6, BeginFacts DEF Moves, AtWork
  <2>2. /\ Head(ops) \notin {"remove_nginx", "nginx", Head(task[e].ops)}
        /\ Head(ops) # "sidekick" =>
              Head(task[e].ops) \in {"sidekick"} \cup (Running \ {"nginx"})
        /\ ops \in Plan(pc)
    BY <1>1, <2>1, PlanFacts
  <2>3. Head(ops) \in Running \cup {"sidekick", "remove_nginx"}
    BY <2>2, PlanFacts
  <2>4. Svc(e)' = Head(ops) /\ Head(ops) \in Services
    BY <1>4, <1>6, <2>2, <2>3, NameFacts DEF Svc
  <2>5. task'[e].step = IF Head(ops) = "sidekick" THEN "sidekick_list" ELSE "inspect"
    BY <1>6, <2>1, <2>2, BeginFacts DEF Moves
  <2>6. Svc(e) \in {Head(task[e].ops), "nginx"}
    BY DEF Svc
  <2>7. Head(ops) # "sidekick" => Svc(e) = Head(task[e].ops)
    BY <2>2, NameFacts DEF Svc, Running
  <2> QED
    BY <1>4, <1>6, <2>2, <2>4, <2>5, <2>6, <2>7
<1> QED
  BY <1>2, <1>3, <1>4, <1>5, <1>6

\* A service the goroutine is not at.
LEMMA Elsewhere ==
    ASSUME TypeInv, TaskInv, NEW e \in AtWork, CtrFrame(e), ServeFrame(e),
           NEW h \in Hosts, NEW s \in Running, e[1] # h \/ Svc(e) # s
    PROVE  /\ ctr'[h][s] = ctr[h][s] /\ ctr'[h][OldName[s]] = ctr[h][OldName[s]]
           /\ s \in serving'[h] <=> s \in serving[h]
<1>1. CASE e[1] # h
  BY <1>1 DEF CtrFrame, ServeFrame
<1>2. CASE e[1] = h /\ Svc(e) # s
  <2>1. Svc(e) \in Services
    BY WorkFacts
  <2>2. /\ s \in Names /\ OldName[s] \in Names /\ s # Svc(e) /\ OldName[s] # Svc(e)
        /\ Svc(e) \in Running => s # OldName[Svc(e)] /\ OldName[s] # OldName[Svc(e)]
    BY <1>2, <2>1, NameFacts
  <2>3. ctr'[h][s] = ctr[h][s] /\ ctr'[h][OldName[s]] = ctr[h][OldName[s]]
    BY <1>2, <2>2 DEF CtrFrame
  <2> QED
    BY <1>2, <2>3 DEF ServeFrame
<1> QED
  BY <1>1, <1>2

\* The container of the service, before and after.
LEMMA OwnContainer ==
    ASSUME NEW e, Deed(e)
    PROVE  \/ Own(e) = Ctr(e)
           \/ Own(e).st = "absent"
           \/ /\ Ctr(e).st # "absent"
              /\ Own(e).version = Ctr(e).version /\ Own(e).cmd = Ctr(e).cmd
           \/ task[e].step = "sidekick_create"
           \/ /\ Own(e).version = Want(Svc(e)).version
              /\ Own(e).cmd = Want(Svc(e)).cmd
BY KeptFacts DEF Deed, GivesUp, Looks, Works, Finishes, Passes, Turned

\* A container of this run is not replaced by another.
LEMMA FreshKeep ==
    ASSUME TypeInv, TaskInv, NEW e \in AtWork, CtrFrame(e), Deed(e),
           conf' = conf, NEW h \in Hosts, NEW s \in Running, Fresh(h, s)
    PROVE  Fresh(h, s)'
<1>1. CASE e[1] # h \/ Svc(e) # s
  BY <1>1, Elsewhere, FreshSame DEF Deed
<1>2. CASE e[1] = h /\ Svc(e) = s
  <2>1. task[e].step # "sidekick_create"
    BY <1>2, SideOp, NameFacts
  <2>2. Own(e) = ctr'[h][s] /\ Ctr(e) = ctr[h][s]
    BY <1>2 DEF Own, Ctr
  <2> QED
    BY <1>2, <2>1, <2>2, OwnContainer, WantConst DEF Fresh, AsWanted
<1> QED
  BY <1>1, <1>2

-----------------------------------------------------------------------------
(* Calls keep the invariant.                                                *)

LEMMA FreshCall ==
    ASSUME TypeInv, TaskInv, TaskInv', NEW e \in AtWork, TaskFrame(e),
           CtrFrame(e), Deed(e), conf' = conf, FreshInv
    PROVE  FreshInv'
<1> SUFFICES ASSUME NEW o \in Entries, o \in AtWork', task'[o].step \in Replacing
             PROVE  Fresh(o[1], Svc(o))'
  BY DEF FreshInv, AtWork
<1>1. o[1] \in Hosts /\ e \in Entries
  BY EntryFacts, WorkFacts
<1>2. CASE o # e
  <2>1. o \in AtWork /\ Svc(o)' = Svc(o) /\ task[o].step \in Replacing
    BY <1>2, OtherTasks DEF Replacing
  <2>2. Svc(o) \in Running /\ Fresh(o[1], Svc(o))
    BY <2>1, RunOp DEF FreshInv, Replacing, RunSteps
  <2>3. PICK s \in Running : s = Svc(o)
    BY <2>2
  <2>4. Fresh(o[1], s)'
    BY <1>1, <2>2, <2>3, FreshKeep
  <2> QED
    BY <2>1, <2>3, <2>4
<1>3. CASE o = e
  <2>1. Stays(e) /\ ~Moves(e) /\ ~Quits(e)
    <3>1. ~Moves(e)
      BY <1>3, OwnTask DEF Replacing
    <3>2. ~Quits(e)
      BY <1>3, OwnTask
    <3> QED
      BY <3>1, <3>2 DEF TaskFrame
  <2>2. Svc(e)' = Svc(e) /\ e[1] \in Hosts
    BY <2>1, OwnTask, WorkFacts
  <2>3. task[e].step \in RunSteps
    BY <1>3, <2>1 DEF Deed, GivesUp, Looks, Works, Finishes, Passes, Replacing, RunSteps
  <2>4. PICK s \in Running : s = Svc(e)
    BY <2>3, RunOp
  <2>5. CASE Looks(e)
    <3>1. Ctr(e).st = "absent" /\ Kept
      BY <1>3, <2>5 DEF Looks, Replacing
    <3>2. ctr'[e[1]][s].st = "absent"
      BY <2>4, <3>1 DEF Kept, Ctr
    <3> QED
      BY <1>3, <2>2, <2>4, <3>2 DEF Fresh
  <2>6. CASE Works(e) /\ task[e].step # "roll_start"
    <3>1. \/ ctr'[e[1]][s].st = "absent"
          \/ /\ ctr'[e[1]][s].version = Want(s).version
             /\ ctr'[e[1]][s].cmd = Want(s).cmd
      BY <1>3, <2>4, <2>6 DEF Works, Replacing, Own
    <3>2. Fresh(e[1], s)'
      BY <3>1, WantConst DEF Fresh, AsWanted
    <3> QED
      BY <1>3, <2>2, <2>4, <3>2
  <2>7. CASE Works(e) /\ task[e].step = "roll_start"
    <3>1. Fresh(e[1], s)
      BY <2>4, <2>7 DEF FreshInv, Replacing
    <3>2. Fresh(e[1], s)'
      BY <2>2, <3>1, FreshKeep
    <3> QED
      BY <1>3, <2>2, <2>4, <3>2
  <2> QED
    BY <1>3, <2>1, <2>5, <2>6, <2>7 DEF Deed, GivesUp, Finishes, Passes, Replacing
<1> QED
  BY <1>2, <1>3

LEMMA StepCall ==
    ASSUME TypeInv, TaskInv, NEW e \in AtWork, TaskFrame(e), Deed(e), StepInv
    PROVE  StepInv'
<1> SUFFICES ASSUME NEW o \in Entries, o \in AtWork'
             PROVE  /\ task'[o].step \in {"restart", "restart_old"} =>
                          <<o[1], Svc(o)'>> \in excused'
                    /\ task'[o].step = "check" => Svc(o)' # "nginx"
  BY DEF StepInv, AtWork
<1>1. excused \subseteq excused'
  BY DEF Deed, GivesUp, Looks, Works, Finishes, Passes
<1>2. CASE o # e
  BY <1>1, <1>2, OtherTasks DEF StepInv
<1>3. CASE o = e
  <2>1. CASE Stays(e)
    <3>1. Svc(e)' = Svc(e) /\ ~Quits(e)
      BY <1>3, <2>1, OwnTask
    <3>2. Looks(e) \/ Works(e) \/ Finishes(e) \/ Passes(e)
      BY <3>1 DEF Deed, GivesUp
    <3>3. CASE Moves(e)
      BY <1>3, <3>3, OwnTask
    <3>4. CASE ~Moves(e)
      BY <1>3, <3>1, <3>2, <3>4 DEF Looks, Works, Finishes, Passes
    <3> QED
      BY <3>3, <3>4
  <2>2. CASE Moves(e)
    BY <1>3, <2>2, OwnTask
  <2> QED
    BY <1>3, <2>1, <2>2, OwnTask DEF TaskFrame
<1> QED
  BY <1>2, <1>3

\* A goroutine other than the caller stays where it is.
LEMMA SomebodyKeep ==
    ASSUME TypeInv, TaskInv, NEW e \in AtWork, TaskFrame(e), NEW o \in AtWork,
           o # e, NEW h, NEW s, NEW steps, "restart" \notin steps,
           o[1] = h, Svc(o) = s, task[o].step \in steps
    PROVE  Somebody(h, s, steps)'
<1>1. o \in Entries
  BY WorkFacts
<1>2. o \in AtWork' /\ Svc(o)' = Svc(o) /\ task'[o].step = task[o].step
  BY <1>1, OtherTasks
<1> QED
  BY <1>2 DEF Somebody

\* Only the caller's own service comes further.
LEMMA HeadSvc ==
    ASSUME TypeInv, TaskInv, NEW e \in AtWork, NEW s \in Running
    PROVE  /\ Head(task[e].ops) = s => Svc(e) = s
           /\ Svc(e) = s => Head(task[e].ops) \in {s, "remove_nginx"}
           /\ (Svc(e) = s /\ task[e].step \in RunSteps) => Head(task[e].ops) = s
<1>1. task[e].step \in RunSteps => Head(task[e].ops) # "remove_nginx"
  BY WorkFacts, StepsOfFacts
<1>2. s # "remove_nginx"
  BY DEF Running
<1> QED
  BY <1>1, <1>2 DEF Svc

LEMMA Further ==
    ASSUME TypeInv, TaskInv, NEW e \in AtWork, TaskFrame(e), Deed(e), pc' = pc,
           ~GivesUp(e), NEW stage, NEW x \in Entries, NEW s \in Running
    PROVE  /\ Begun(stage, x, s)' =>
                 \/ Begun(stage, x, s)
                 \/ x = e /\ Svc(e) = s /\ task[e].step = "inspect"
           /\ Brought(stage, x, s)' =>
                 \/ Brought(stage, x, s)
                 \/ ~Earlier(stage) /\ x = e /\ Svc(e) = s /\ Finishes(e)
           /\ Gone(stage, x, s)' =>
                 \/ Gone(stage, x, s)
                 \/ ~Earlier(stage) /\ x = e /\ Svc(e) = s /\ Moves(e)
<1>1. Earlier(stage)' = Earlier(stage)
  BY DEF Earlier
<1>2. CASE x # e
  BY <1>1, <1>2, OtherTasks DEF Begun, Brought, Gone
<1>3. CASE x = e /\ Stays(e) /\ ~Moves(e)
  <2>1. task'[e].ops = task[e].ops
    BY <1>3, OwnTask
  <2>2. Head(task[e].ops) = s => Svc(e) = s
    BY HeadSvc
  <2>3. task'[e].step = "check" => Finishes(e)
    BY <1>3 DEF Deed, GivesUp, Looks, Works, Passes
  <2> QED
    BY <1>1, <1>3, <2>1, <2>2, <2>3 DEF Begun, Brought, Gone
<1>4. CASE x = e /\ Moves(e)
  <2>1. /\ task'[e].ops = Tail(task[e].ops)
        /\ Left(task'[e].ops) = Left(task[e].ops) \ {Head(task[e].ops)}
    BY <1>4, OwnTask
  <2>2. Head(task[e].ops) = s => Svc(e) = s
    BY HeadSvc
  <2>3. s \in Left(task'[e].ops) => e \in AtWork'
    BY <1>4, DoneType, LeftLists, WorkFacts DEF AtWork
  <2>4. (s \in Left(task'[e].ops) /\ Head(task'[e].ops) = s) => task'[e].step = "inspect"
    <3> SUFFICES ASSUME e \in AtWork', Head(task'[e].ops) = s
                 PROVE  task'[e].step = "inspect"
      BY <2>3
    <3>1. Svc(e)' = s
      BY DEF Svc, Running
    <3> QED
      BY <1>4, <3>1, OwnTask, NameFacts
  <2>5. Gone(stage, e, s)' => Gone(stage, e, s) \/ (~Earlier(stage) /\ Svc(e) = s)
    BY <1>1, <2>1, <2>2 DEF Gone
  <2>6. Begun(stage, e, s)' => Gone(stage, e, s)'
    BY <2>4 DEF Begun, Gone
  <2>7. Brought(stage, e, s)' => Gone(stage, e, s)'
    BY <2>4 DEF Brought, Gone
  <2>8. ASSUME Head(task[e].ops) = s
        PROVE  /\ Finishes(e) \/ task[e].step = "check"
               /\ task[e].step # "inspect"
    <3>1. task[e].step \in RunSteps
      BY <2>8, WorkFacts, StepsOfFacts DEF Running
    <3>2. ~Stays(e)
      <4> SUFFICES ASSUME Stays(e) PROVE  FALSE
        OBVIOUS
      <4>1. task'[e].ops = task[e].ops /\ s \in Left(task[e].ops)
        BY <2>8, OwnTask, WorkFacts, LeftFacts
      <4> QED
        BY <2>1, <2>8, <4>1
    <3> QED
      BY <3>1, <3>2 DEF Deed, GivesUp, Looks, Works, Finishes, Passes, RunSteps
  <2>9. (s \notin Left(task'[e].ops) /\ s \in Left(task[e].ops)) => Head(task[e].ops) = s
    BY <2>1
  <2> QED
    BY <1>1, <1>4, <2>2, <2>4, <2>5, <2>6, <2>7, <2>8, <2>9 DEF Begun, Brought, Gone
<1>5. Stays(e) \/ Moves(e)
  BY DEF Deed, Looks, Works, Finishes, Passes
<1> QED
  BY <1>2, <1>3, <1>4, <1>5

LEMMA RankFacts ==
    /\ \A p \in Stages : Rank[p] \in 1 .. 4
    /\ \A p, q \in Stages : Rank[p] = Rank[q] => p = q
    /\ \A p \in Stages : Rank[p] <= Rank["control"] => p = "control"
BY DEF Rank, Stages

\* What is due after a call was due before.
LEMMA DueCall ==
    ASSUME NEW e, Deed(e), conf' = conf, pc' = pc, NEW stage, NEW x, NEW s,
           Due(stage, x, s)'
    PROVE  /\ Due(stage, x, s) /\ <<x[1], s>> \notin excused'
           /\ GoesOn /\ ~GivesUp(e)
<1>1. ~failed' /\ <<x[1], s>> \notin excused'
  BY DEF Due
<1>2. ~GivesUp(e) /\ GoesOn
  BY <1>1 DEF GivesUp, Deed
<1>3. excused \subseteq excused'
  BY DEF Deed, GivesUp, Looks, Works, Finishes, Passes
<1>4. Due(stage, x, s)
  BY <1>1, <1>2, <1>3, ConfSame DEF Due, GoesOn
<1> QED
  BY <1>1, <1>2, <1>4

LEMMA RunsCall ==
    ASSUME TypeInv, TaskInv, NEW e \in AtWork, TaskFrame(e), CtrFrame(e), Deed(e),
           conf' = conf, pc' = pc, RunsInv
    PROVE  RunsInv'
<1> SUFFICES ASSUME NEW stage \in Stages, NEW x \in Entries, NEW s \in Running,
                    Due(stage, x, s)', Begun(stage, x, s)'
             PROVE  (ctr[x[1]][s].st = "running")' \/ Somebody(x[1], s, Pausing)'
  BY DEF RunsInv
<1> DEFINE h == x[1]
<1>1. Due(stage, x, s) /\ <<h, s>> \notin excused' /\ ~GivesUp(e)
  BY DueCall
<1>2. h \in Hosts /\ e \in Entries /\ pc \in Stages /\ Svc(e) \in Services
  BY EntryFacts, WorkFacts
<1>3. ASSUME NEW o \in AtWork, o # e, o[1] = h, Svc(o) = s,
             task[o].step \in Pausing
      PROVE  Somebody(h, s, Pausing)'
  BY <1>3, SomebodyKeep DEF Pausing
<1>4. CASE Begun(stage, x, s) /\ (e[1] # h \/ Svc(e) # s)
  <2>1. ctr'[h][s] = ctr[h][s]
    BY <1>2, <1>4, Elsewhere DEF Deed
  <2>2. ctr[h][s].st = "running" \/ Somebody(h, s, Pausing)
    BY <1>1, <1>4 DEF RunsInv
  <2> QED
    BY <1>3, <1>4, <2>1, <2>2 DEF Somebody
<1>5. CASE e[1] = h /\ Svc(e) = s
  <2>1. Own(e) = ctr'[h][s] /\ Ctr(e) = ctr[h][s]
    BY <1>5 DEF Own, Ctr
  <2>2. ASSUME Stays(e), task'[e].step \in Pausing
        PROVE  Somebody(h, s, Pausing)'
    BY <1>5, <2>2, OwnTask DEF Somebody
  <2>3. task[e].step \in RunSteps /\ Head(task[e].ops) = s
    <3>1. task[e].step \notin {"rm_inspect", "rm_stop", "rm"}
      <4> SUFFICES ASSUME task[e].step \in {"rm_inspect", "rm_stop", "rm"} PROVE  FALSE
        OBVIOUS
      <4>1. s = "nginx" /\ Head(task[e].ops) = "remove_nginx"
        BY <1>5, RemoveOp, WorkFacts, StepsOfFacts
      <4>2. pc = "control"
        BY <4>1, WorkFacts, PlanFacts
      <4>3. stage = "control"
        BY <1>1, <4>2, RankFacts DEF Due
      <4> QED
        BY <1>1, <4>1, <4>3, DutyFacts DEF Due
    <3>2. task[e].step \notin {"sidekick_list", "sidekick_create"}
      BY <1>5, SideOp, NameFacts
    <3>3. task[e].step \in RunSteps
      BY <3>1, <3>2, WorkFacts, StepsOfFacts
    <3> QED
      BY <1>5, <3>3, HeadSvc
  <2>4. CASE task[e].step = "inspect"
    <3>1. Looks(e)
      BY <1>1, <2>4 DEF Deed, Works, Finishes, Passes
    <3>2. \/ task'[e].step = "create"
          \/ Ctr(e).st = "running"
      BY <1>1, <1>5, <2>4, <3>1 DEF Looks
    <3> QED
      BY <2>1, <2>2, <3>1, <3>2, KeptFacts DEF Looks, Pausing
  <2>5. CASE task[e].step # "inspect"
    <3>1. Begun(stage, x, s)
      BY <1>1, <2>5, Further
    <3>2. CASE \E o \in AtWork : o # e /\ o[1] = h /\ Svc(o) = s
                                 /\ task[o].step \in Pausing
      BY <1>3, <3>2
    <3>3. CASE Ctr(e).st = "running" \/ task[e].step \in Pausing
      <4>1. CASE Looks(e)
        BY <2>1, <2>2, <2>3, <2>5, <3>3, <4>1, KeptFacts
           DEF Looks, Pausing, RunSteps
      <4>2. CASE Works(e)
        BY <2>1, <2>2, <2>3, <4>2 DEF Works, Pausing, RunSteps, Turned
      <4>3. CASE Finishes(e)
        BY <2>1, <3>3, <4>3, KeptFacts DEF Finishes, Pausing, Turned
      <4>4. CASE Passes(e)
        BY <2>1, <2>3, <3>3, <4>4, KeptFacts DEF Passes, Pausing, RunSteps
      <4> QED
        BY <1>1, <4>1, <4>2, <4>3, <4>4 DEF Deed
    <3>4. Ctr(e).st = "running" \/ Somebody(h, s, Pausing)
      BY <1>1, <2>1, <3>1 DEF RunsInv
    <3> QED
      BY <3>2, <3>3, <3>4 DEF Somebody
  <2> QED
    BY <2>4, <2>5
<1> QED
  BY <1>1, <1>4, <1>5, Further

LEMMA WantedCall ==
    ASSUME TypeInv, TaskInv, NEW e \in AtWork, TaskFrame(e), CtrFrame(e), Deed(e),
           conf' = conf, pc' = pc, FreshInv, StepInv, RunsInv, WantedInv
    PROVE  WantedInv'
<1> SUFFICES ASSUME NEW stage \in Stages, NEW x \in Entries, NEW s \in Running,
                    Due(stage, x, s)', Brought(stage, x, s)'
             PROVE  Fresh(x[1], s)' \/ Somebody(x[1], s, {"wait", "rename"})'
  BY DEF WantedInv
<1> DEFINE h == x[1]
<1>1. Due(stage, x, s) /\ <<h, s>> \notin excused' /\ ~GivesUp(e)
  BY DueCall
<1>2. h \in Hosts /\ e \in Entries
  BY EntryFacts, WorkFacts
<1>3. ASSUME NEW o \in AtWork, o # e, o[1] = h, Svc(o) = s,
             task[o].step \in {"wait", "rename"}
      PROVE  Somebody(h, s, {"wait", "rename"})'
  BY <1>3, SomebodyKeep
<1>4. Fresh(h, s) => Fresh(h, s)'
  BY <1>2, FreshKeep
<1>5. CASE Brought(stage, x, s)
  <2>1. CASE e[1] = h /\ Svc(e) = s /\ task[e].step \in {"wait", "rename"}
    <3>1. Own(e) = ctr'[h][s]
      BY <2>1 DEF Own
    <3>2. CASE Looks(e)
      <4>1. CASE task'[e].step = "rename"
        BY <2>1, <3>2, <4>1, OwnTask DEF Looks, Somebody
      <4>2. CASE task'[e].step # "rename"
        <5>1. Ctr(e).st = "absent" /\ Kept
          BY <2>1, <3>2, <4>2 DEF Looks
        <5> QED
          BY <3>1, <5>1, KeptFacts DEF Fresh
      <4> QED
        BY <4>1, <4>2
    <3>3. CASE Works(e)
      <4>1. Own(e).st = "absent"
        BY <2>1, <3>3 DEF Works
      <4> QED
        BY <3>1, <4>1 DEF Fresh
    <3> QED
      BY <1>1, <2>1, <3>2, <3>3 DEF Deed, Finishes, Passes
  <2>2. CASE ~(e[1] = h /\ Svc(e) = s /\ task[e].step \in {"wait", "rename"})
    <3>1. Fresh(h, s) \/ Somebody(h, s, {"wait", "rename"})
      BY <1>1, <1>5 DEF WantedInv
    <3> QED
      BY <1>3, <1>4, <2>2, <3>1 DEF Somebody
  <2> QED
    BY <2>1, <2>2
<1>6. CASE x = e /\ Svc(e) = s /\ Finishes(e) /\ ~Earlier(stage)
  <2>1. task[e].step \in RunSteps
    BY <1>6 DEF Finishes, RunSteps
  <2>2. task[e].step \notin {"restart", "restart_old"}
    BY <1>1, <1>6 DEF StepInv, Finishes
  <2>3. CASE task[e].step \in {"start", "drop"}
    <3>1. Fresh(h, s)
      BY <1>6, <2>3 DEF FreshInv, Replacing
    <3> QED
      BY <1>4, <3>1
  <2>4. CASE task[e].step = "compare"
    <3>1. Fresh(h, s)
      BY <1>6, <2>4 DEF Finishes, Fresh
    <3> QED
      BY <1>4, <3>1
  <2>5. CASE task[e].step = "list"
    <3>1. Ctr(e).st # "running" /\ Ctr(e) = ctr[h][s]
      BY <1>6, <2>5 DEF Finishes, Ctr
    <3>2. Begun(stage, x, s)
      <4>1. Head(task[e].ops) = s
        BY <1>6, <2>1, HeadSvc
      <4> QED
        BY <1>6, <2>5, <4>1 DEF Begun
    <3>3. Somebody(h, s, Pausing)
      BY <1>1, <3>1, <3>2 DEF RunsInv
    <3>4. PICK o \in AtWork : o[1] = h /\ Svc(o) = s /\ task[o].step \in Pausing
      BY <3>3 DEF Somebody
    <3>5. CASE task[o].step \in {"wait", "rename"}
      BY <1>3, <2>5, <3>4, <3>5
    <3>6. CASE task[o].step \notin {"wait", "rename"}
      <4>1. Fresh(h, s)
        BY <3>4, <3>6 DEF FreshInv, Pausing, Replacing
      <4> QED
        BY <1>4, <4>1
    <3> QED
      BY <3>5, <3>6
  <2> QED
    BY <1>6, <2>2, <2>3, <2>4, <2>5 DEF Finishes
<1> QED
  BY <1>1, <1>5, <1>6, Further

LEMMA ControlHeads == \A ops \in Plan("control") : Head(ops) # "nginx"
BY HeadFacts DEF Plan, ControlTails

\* On a control host nobody runs nginx-proxy.
LEMMA NotNginx ==
    ASSUME TypeInv, TaskInv, ProxyInv, NEW e \in AtWork,
           Is(conf, e[1], "controlplane"), ~Is(conf, e[1], "worker")
    PROVE  Svc(e) # "nginx"
<1>1. Head(task[e].ops) \notin {"remove_nginx", "nginx"}
  BY WorkFacts, ControlHeads DEF ProxyInv
<1> QED
  BY <1>1 DEF Svc

\* Who answers the health check of s.
LEMMA WhoServes ==
    ASSUME TypeInv, TaskInv, ServingInv, ProxyInv, OldInv, NEW e \in AtWork,
           e[1] \notin raced, task[e].step = "check",
           Svc(e) = "api", "nginx" \in serving[e[1]]
    PROVE  PortTaken(e[1])
<1>1. /\ e[1] \in Hosts /\ e \in Members(pc) /\ pc \in Stages
      /\ task[e].ops \in Plan(pc)
  BY WorkFacts
<1>2. Head(task[e].ops) = "api"
  BY HeadSvc DEF Running, RunSteps
<1>3. pc = "control"
  <2> SUFFICES ASSUME pc # "control" PROVE  FALSE
    OBVIOUS
  <2>1. task[e].ops \in WorkerTails
    BY <1>1 DEF Plan
  <2> QED
    BY <1>2, <2>1, HeadFacts DEF WorkerTails
<1>4. Is(conf, e[1], "controlplane")
  BY <1>1, <1>3, MemberRole
<1>5. ctr[e[1]]["nginx"].st = "running"
  BY <1>1 DEF ServingInv
<1>6. ~Is(conf, e[1], "worker")
  BY <1>2, <1>3, <1>5 DEF ProxyInv
<1> QED
  BY <1>4, <1>5, <1>6 DEF PortTaken

LEMMA ServingCall ==
    ASSUME TypeInv, TaskInv, NEW e \in AtWork, CtrFrame(e), Deed(e), ServingInv
    PROVE  ServingInv'
<1>1. ServeFrame(e) /\ e[1] \in Hosts /\ Svc(e) \in Services
  BY WorkFacts DEF Deed
<1> SUFFICES ASSUME NEW h \in Hosts, NEW n \in serving'[h]
             PROVE  ctr'[h][n].st = "running"
  BY <1>1 DEF ServingInv, ServeType, ServeFrame
<1>2. n \in Names /\ n \in serving[h]
  BY <1>1 DEF ServeFrame
<1>3. ctr[h][n].st = "running"
  BY <1>2 DEF ServingInv
<1>4. CASE h # e[1]
  BY <1>3, <1>4 DEF CtrFrame
<1>5. CASE h = e[1] /\ n = Svc(e)
  BY <1>1, <1>3, <1>5 DEF ServeFrame, Own, Ctr
<1>6. CASE h = e[1] /\ Svc(e) \in Running /\ n = OldName[Svc(e)]
  <2>1. Park(e) = ctr'[h][n] /\ Parked(e) = ctr[h][n]
    BY <1>6 DEF Park, Parked
  <2>2. Park(e) = Parked(e) \/ Park(e).st = "running" \/ Parked(e).st # "running"
    BY <1>6, KeptFacts DEF Deed, GivesUp, Looks, Works, Finishes, Passes
  <2> QED
    BY <1>3, <2>1, <2>2
<1> QED
  BY <1>1, <1>2, <1>3, <1>4, <1>5, <1>6 DEF CtrFrame

LEMMA ProxyCall ==
    ASSUME TypeInv, TaskInv, NEW e \in AtWork, TaskFrame(e), CtrFrame(e), Deed(e),
           conf' = conf, pc' = pc, ProxyInv
    PROVE  ProxyInv'
<1> SUFFICES ASSUME NEW o \in Entries, o \in AtWork'
             PROVE  /\ Head(task'[o].ops) = "remove_nginx" => Is(conf, o[1], "worker")
                    /\ (pc # "control" /\ Is(conf, o[1], "controlplane"))
                       => Head(task'[o].ops) # "nginx"
                    /\ (/\ pc = "control" /\ Is(conf, o[1], "worker")
                        /\ Head(task'[o].ops) # "remove_nginx")
                       => ctr'[o[1]]["nginx"].st = "absent"
  BY ConfSame DEF ProxyInv, AtWork
<1>1. o[1] \in Hosts /\ e \in Entries /\ "nginx" \in Running
  BY EntryFacts, WorkFacts, NameFacts
\* In the control stage nginx-proxy only ever goes away.
<1>2. ASSUME pc = "control", ctr[o[1]]["nginx"].st = "absent"
      PROVE  ctr'[o[1]]["nginx"].st = "absent"
  <2>1. CASE e[1] # o[1] \/ Svc(e) # "nginx"
    BY <1>1, <1>2, <2>1, Elsewhere DEF Deed
  <2>2. CASE e[1] = o[1] /\ Svc(e) = "nginx"
    <3>1. Head(task[e].ops) = "remove_nginx"
      BY <1>1, <1>2, <2>2, HeadSvc, WorkFacts, ControlHeads
    <3>2. task[e].step \in {"rm_inspect", "rm_stop", "rm"}
      BY <3>1, WorkFacts, StepsOfFacts
    <3>3. Own(e) = Ctr(e) \/ Own(e).st = "absent" \/ Ctr(e).st # "absent"
      BY <3>2, KeptFacts DEF Deed, GivesUp, Looks, Works, Finishes, Passes
    <3> QED
      BY <1>2, <2>2, <3>3 DEF Own, Ctr
  <2> QED
    BY <2>1, <2>2
<1>3. CASE o # e
  BY <1>2, <1>3, OtherTasks DEF ProxyInv
<1>4. CASE o = e /\ Stays(e)
  BY <1>2, <1>4, OwnTask DEF ProxyInv
<1>5. CASE o = e /\ Moves(e)
  <2>1. Head(task'[e].ops) \notin {"remove_nginx", "nginx"}
    BY <1>5, OwnTask
  <2>2. CASE pc = "control" /\ Is(conf, e[1], "worker")
    <3>1. CASE Head(task[e].ops) # "remove_nginx"
      BY <1>2, <1>5, <2>1, <2>2, <3>1 DEF ProxyInv
    <3>2. CASE Head(task[e].ops) = "remove_nginx"
      <4>1. task[e].step \in {"rm_inspect", "rm_stop", "rm"} /\ Svc(e) = "nginx"
        BY <3>2, WorkFacts, StepsOfFacts DEF Svc
      <4>2. ~Quits(e)
        BY <1>5, OwnTask
      <4>3. ~Stays(e)
        BY <1>5, <2>1, <3>2, OwnTask
      <4>4. Own(e).st = "absent"
        BY <4>1, <4>2, <4>3, KeptFacts
           DEF Deed, GivesUp, Looks, Works, Finishes, Passes
      <4> QED
        BY <1>5, <2>1, <4>1, <4>4 DEF Own
    <3> QED
      BY <3>1, <3>2
  <2> QED
    BY <1>5, <2>1, <2>2
<1> QED
  BY <1>3, <1>4, <1>5, OwnTask DEF TaskFrame

LEMMA OldCall ==
    ASSUME TypeInv, TaskInv, NEW e \in AtWork, TaskFrame(e), CtrFrame(e), Deed(e),
           raced' = raced, OldInv
    PROVE  OldInv'
<1> SUFFICES ASSUME NEW h \in Hosts, h \notin raced
             PROVE  /\ \A s \in Running : ctr'[h][OldName[s]].st # "running"
                    /\ \A o \in AtWork' : o[1] = h =>
                          /\ task'[o].step # "restart_old"
                          /\ task'[o].step = "rename" => (Ctr(o).st # "running")'
  BY DEF OldInv
<1>0. /\ \A s \in Running : ctr[h][OldName[s]].st # "running"
      /\ \A o \in AtWork : o[1] = h =>
            /\ task[o].step # "restart_old"
            /\ task[o].step = "rename" => Ctr(o).st # "running"
  BY DEF OldInv
<1>1. ASSUME NEW s \in Running PROVE  ctr'[h][OldName[s]].st # "running"
  <2>1. CASE e[1] # h \/ Svc(e) # s
    BY <1>0, <2>1, Elsewhere DEF Deed
  <2>2. CASE e[1] = h /\ Svc(e) = s
    <3>1. /\ Park(e) = ctr'[h][OldName[s]] /\ Parked(e).st # "running"
          /\ task[e].step # "restart_old"
          /\ task[e].step = "rename" => Ctr(e).st # "running"
      BY <1>0, <2>2 DEF Park, Parked
    <3>2. Park(e) = Parked(e) \/ Park(e).st = "absent"
          \/ (task[e].step = "rename" /\ Park(e) = Ctr(e))
      BY <2>2, <3>1, KeptFacts DEF Deed, GivesUp, Looks, Works, Finishes, Passes
    <3> QED
      BY <3>1, <3>2
  <2> QED
    BY <2>1, <2>2
<1>2. ASSUME NEW o \in Entries, o \in AtWork', o[1] = h
      PROVE  /\ task'[o].step # "restart_old"
             /\ task'[o].step = "rename" => (Ctr(o).st # "running")'
  <2>1. CASE o # e
    <3>1. o \in AtWork
      BY <1>2, <2>1, OtherTasks
    <3>2. e[1] # h
      BY <1>2, <2>1, <3>1, OneGoroutine
    <3>3. task'[o] = task[o] /\ Svc(o)' = Svc(o) /\ ctr'[h] = ctr[h]
      BY <1>2, <2>1, <3>2, OtherTasks DEF CtrFrame
    <3> QED
      BY <1>0, <1>2, <3>1, <3>3 DEF Ctr
  <2>2. CASE o = e
    <3>1. CASE Moves(e)
      BY <1>2, <2>2, <3>1, OwnTask
    <3>2. CASE ~Moves(e)
      <4>1. Stays(e) /\ ~Quits(e) /\ Svc(e)' = Svc(e)
        BY <1>2, <2>2, <3>2, OwnTask DEF TaskFrame
      <4>2. task'[e].step # "restart_old"
        BY <3>2, <4>1 DEF Deed, GivesUp, Looks, Works, Finishes, Passes
      <4>3. task'[e].step = "rename" => Ctr(e).st # "running" /\ Kept
        BY <3>2, <4>1 DEF Deed, GivesUp, Looks, Works, Finishes, Passes
      <4> QED
        BY <2>2, <4>1, <4>2, <4>3 DEF Kept, Ctr
    <3> QED
      BY <3>1, <3>2
  <2> QED
    BY <2>1, <2>2
<1> QED
  BY <1>1, <1>2 DEF AtWork

LEMMA ServesCall ==
    ASSUME TypeInv, TaskInv, NEW e \in AtWork, TaskFrame(e), CtrFrame(e), Deed(e),
           conf' = conf, pc' = pc, raced' = raced,
           RunsInv, WantedInv, ServesInv, ServingInv, ProxyInv, OldInv
    PROVE  ServesInv'
<1> SUFFICES ASSUME NEW stage \in Stages, NEW x \in Entries, NEW s \in Running,
                    Due(stage, x, s)', Gone(stage, x, s)', x[1] \notin raced,
                    s # "nginx"
             PROVE  /\ ctr'[x[1]][s].st = "running" /\ AsWanted(x[1], s)'
                    /\ s \in serving'[x[1]] \/ (s = "api" /\ PortTaken(x[1])')
                    /\ \A o \in AtWork' : (o[1] = x[1] /\ Svc(o)' = s) =>
                          task'[o].step \in {"inspect", "compare", "check"}
  BY DEF ServesInv
<1> DEFINE h == x[1]
           Up == /\ ctr[h][s].st = "running" /\ AsWanted(h, s)
                 /\ s \in serving[h] \/ (s = "api" /\ PortTaken(h))
<1>1. Due(stage, x, s) /\ <<h, s>> \notin excused' /\ ~GivesUp(e)
  BY DueCall
<1>2. h \in Hosts /\ e \in Entries /\ pc \in Stages /\ s # "sidekick"
  BY EntryFacts, WorkFacts, NameFacts
<1>3. \A o \in AtWork' : o \in Entries
  BY DEF AtWork
<1>4. CASE Gone(stage, x, s) /\ (e[1] # h \/ Svc(e) # s)
  <2>1. /\ Up
        /\ \A o \in AtWork : (o[1] = h /\ Svc(o) = s) =>
              task[o].step \in {"inspect", "compare", "check"}
    BY <1>1, <1>4 DEF ServesInv
  <2>2. /\ ctr'[h][s] = ctr[h][s]
        /\ s \in serving'[h] <=> s \in serving[h]
        /\ AsWanted(h, s)' <=> AsWanted(h, s)
    BY <1>2, <1>4, Elsewhere, FreshSame DEF Deed
  <2>3. PortTaken(h) => PortTaken(h)'
    <3> SUFFICES ASSUME PortTaken(h) PROVE  PortTaken(h)'
      OBVIOUS
    <3>1. e[1] # h \/ Svc(e) # "nginx"
      BY NotNginx DEF PortTaken
    <3>2. ctr'[h]["nginx"] = ctr[h]["nginx"]
      BY <1>2, <3>1, Elsewhere, NameFacts DEF Deed
    <3> QED
      BY <3>2, ConfSame DEF PortTaken
  <2>4. ASSUME NEW o \in AtWork', o[1] = h, Svc(o)' = s
        PROVE  task'[o].step \in {"inspect", "compare", "check"}
    <3>1. CASE o # e
      <4>1. /\ o \in AtWork /\ Svc(o) = s
            /\ o[1] # e[1] \/ e[1] \notin raced => task'[o] = task[o]
        BY <1>3, <2>4, <3>1, OtherTasks
      <4> QED
        BY <2>1, <2>4, <4>1
    <3>2. CASE o = e
      <4>1. Svc(e)' # Svc(e)
        BY <1>4, <2>4, <3>2
      <4>2. Moves(e)
        BY <2>4, <3>2, <4>1, OwnTask DEF TaskFrame
      <4> QED
        BY <1>2, <2>4, <3>2, <4>2, OwnTask
    <3> QED
      BY <3>1, <3>2
  <2> QED
    BY <2>1, <2>2, <2>3, <2>4
<1>5. ASSUME e[1] = h, Svc(e) = s, Up, Kept,
             e \in AtWork' => \/ Svc(e)' # s
                              \/ task'[e].step \in {"inspect", "compare", "check"}
      PROVE  /\ ctr'[h][s].st = "running" /\ AsWanted(h, s)'
             /\ s \in serving'[h] \/ (s = "api" /\ PortTaken(h)')
             /\ \A o \in AtWork' : (o[1] = h /\ Svc(o)' = s) =>
                   task'[o].step \in {"inspect", "compare", "check"}
  <2>1. ctr' = ctr /\ serving' = serving
    BY <1>5 DEF Kept
  <2>2. AsWanted(h, s)' /\ (PortTaken(h) => PortTaken(h)')
    BY <1>5, <2>1, FreshSame, ConfSame DEF PortTaken
  <2>3. \A o \in AtWork' : o[1] = h => o = e
    <3> SUFFICES ASSUME NEW o \in AtWork', o[1] = h, o # e PROVE  FALSE
      OBVIOUS
    <3>1. o \in AtWork
      BY <1>3, OtherTasks
    <3> QED
      BY <1>5, <3>1, OneGoroutine
  <2> QED
    BY <1>5, <2>1, <2>2, <2>3
<1>6. CASE Gone(stage, x, s) /\ e[1] = h /\ Svc(e) = s
  <2>1. Up /\ task[e].step \in {"inspect", "compare", "check"}
    BY <1>1, <1>6 DEF ServesInv
  <2>2. Ctr(e).st = "running" /\ AsWanted(e[1], Svc(e))
    BY <1>6, <2>1 DEF Ctr
  <2>3. Kept /\ (Moves(e) \/ task'[e].step \in {"inspect", "compare", "check"})
    BY <1>1, <2>1, <2>2 DEF Deed, Looks, Works, Finishes, Passes
  <2>4. e \in AtWork' => \/ Svc(e)' # s
                         \/ task'[e].step \in {"inspect", "compare", "check"}
    BY <1>6, <2>3, OwnTask
  <2> HIDE DEF Up
  <2> QED
    BY <1>5, <1>6, <2>1, <2>3, <2>4
<1>7. CASE x = e /\ Svc(e) = s /\ Moves(e) /\ ~Earlier(stage)
  <2>1. e \in AtWork' => Svc(e)' # s
    BY <1>7, OwnTask
  <2>2. ~Stays(e)
    BY <1>7, <2>1, OwnTask
  <2>3. task[e].step = "check" /\ Healthy(h, s) /\ Kept /\ Head(task[e].ops) = s
    <3>1. Passes(e)
      BY <1>1, <1>7, <2>2 DEF Deed, Looks, Works, Finishes
    <3>2. task[e].step \notin {"sidekick_list", "sidekick_create", "rm_inspect",
                              "rm_stop", "rm"}
      BY <1>2, <1>7, SideOp, RemoveOp
    <3>3. task[e].step = "check" /\ Healthy(h, s) /\ Kept
      BY <1>7, <3>1, <3>2 DEF Passes
    <3> QED
      BY <1>7, <3>3, HeadSvc DEF RunSteps
  <2>4. \A o \in AtWork : (o[1] = h /\ Svc(o) = s) => task[o].step = "check"
    BY <1>7, <2>3, OneGoroutine
  <2>5. ctr[h][s].st = "running" /\ AsWanted(h, s)
    <3>1. Begun(stage, x, s) /\ Brought(stage, x, s)
      BY <1>7, <2>3 DEF Begun, Brought
    <3>2. ctr[h][s].st = "running" \/ Somebody(h, s, Pausing)
      BY <1>1, <3>1 DEF RunsInv
    <3>3. Fresh(h, s) \/ Somebody(h, s, {"wait", "rename"})
      BY <1>1, <3>1 DEF WantedInv
    <3> QED
      BY <2>4, <3>2, <3>3 DEF Somebody, Pausing, Fresh
  <2>6. s \in serving[h] \/ (s = "api" /\ PortTaken(h))
    <3>1. OldName[s] \notin serving[h]
      BY <1>2 DEF ServingInv, OldInv
    <3>2. s \in serving[h] \/ (s = "api" /\ "nginx" \in serving[h])
      BY <2>3, <3>1 DEF Healthy
    <3> QED
      BY <1>7, <2>3, <3>2, WhoServes
  <2> QED
    BY <1>5, <1>7, <2>1, <2>3, <2>5, <2>6
<1> QED
  BY <1>1, <1>4, <1>6, <1>7, Further

LEMMA CleanCall ==
    ASSUME TypeInv, TaskInv, TypeInv', TaskInv', NEW e \in AtWork, TaskFrame(e),
           CtrFrame(e), Deed(e), raced' = raced, OldInv, CleanInv
    PROVE  CleanInv'
<1> SUFFICES ASSUME clean', NEW o \in Entries, o \in AtWork', o[1] \notin raced
             PROVE  CleanOK(o)'
  BY DEF CleanInv, AtWork
<1>1. clean
  BY DEF Deed, GivesUp, GoesOn
<1>2. e \in Entries /\ e[1] \in Hosts /\ o[1] \in Hosts
  BY EntryFacts, WorkFacts
<1>3. CASE o # e
  <2>1. o \in AtWork /\ Svc(o)' = Svc(o)
    BY <1>3, OtherTasks
  <2>2. e[1] # o[1]
    BY <1>3, <2>1, OneGoroutine
  <2>3. task'[o] = task[o] /\ ctr'[o[1]] = ctr[o[1]]
    BY <1>2, <1>3, <2>2, OtherTasks DEF CtrFrame
  <2>4. CleanOK(o)
    BY <1>1, <2>1 DEF CleanInv
  <2> QED
    BY <2>1, <2>3, <2>4 DEF CleanOK, Ctr, Parked
<1>4. CASE o = e
  <2>1. CleanOK(e) /\ task[e].step # "restart_old"
    BY <1>1, <1>2, <1>4 DEF CleanInv, OldInv
  <2>2. Svc(e) # "sidekick" => ctr'[e[1]]["sidekick"] = ctr[e[1]]["sidekick"]
    BY NameFacts DEF CtrFrame
  <2>3. CASE Moves(e)
    <3>1. /\ task'[e].step \in {"inspect", "sidekick_list"}
          /\ Svc(e)' # "sidekick" => Svc(e) \in {"sidekick"} \cup (Running \ {"nginx"})
      BY <1>4, <2>3, OwnTask
    <3>2. Ctr(e)'.st \in States
      <4>1. Svc(e)' \in Names
        BY <1>4, <2>3, OwnTask, NameFacts
      <4> QED
        BY <1>2, <4>1 DEF Ctr, TypeInv, Containers
    <3>3. Svc(e)' \in Running \ {"nginx"} => ctr'[e[1]]["sidekick"].st # "absent"
      <4> SUFFICES ASSUME Svc(e)' # "sidekick"
                   PROVE  ctr'[e[1]]["sidekick"].st # "absent"
        BY NameFacts
      <4>1. CASE Svc(e) = "sidekick"
        <5>1. ~Quits(e) /\ ~Stays(e)
          BY <1>4, <4>1, OwnTask
        <5>2. Own(e).st # "absent"
          <6>1. task[e].step \in {"sidekick_list", "sidekick_create"}
            BY <4>1, WorkFacts, StepsOfFacts DEF Svc
          <6> QED
            BY <5>1, <6>1, KeptFacts
               DEF Deed, GivesUp, Looks, Works, Finishes, Passes
        <5> QED
          BY <4>1, <5>2 DEF Own
      <4>2. CASE Svc(e) # "sidekick"
        BY <2>1, <2>2, <3>1, <4>2 DEF CleanOK
      <4> QED
        BY <4>1, <4>2
    <3> QED
      BY <1>4, <3>1, <3>2, <3>3 DEF CleanOK, CleanStates, Rolling
  <2>4. CASE Stays(e) /\ ~Moves(e)
    <3>1. Svc(e)' = Svc(e) /\ ~Quits(e)
      BY <1>4, <2>4, OwnTask
    <3>2. Ctr(e)' = Own(e) /\ Parked(e)' = Park(e)
      BY <3>1 DEF Ctr, Parked, Own, Park
    <3>3. Svc(e) \in Running \ {"nginx"} => ctr'[e[1]]["sidekick"].st # "absent"
      BY <2>1, <2>2, NameFacts DEF CleanOK
    <3>4. /\ Ctr(e).st \in CleanStates(task[e].step)
          /\ task[e].step \in Rolling => Parked(e).st = "exited"
          /\ Ctr(e).st \in States
      BY <2>1, WorkFacts DEF CleanOK, Containers
    <3>5. /\ Own(e).st \in CleanStates(task'[e].step)
          /\ task'[e].step \in Rolling => Park(e).st = "exited"
      <4>1. CASE Looks(e)
        BY <3>4, <4>1, KeptFacts DEF Looks, CleanStates, Rolling, States
      <4>2. CASE Works(e)
        BY <3>4, <4>2 DEF Works, CleanStates, Rolling, Turned, States
      <4>3. CASE Finishes(e)
        BY <2>1, <2>4, <3>4, <4>3, KeptFacts
           DEF Finishes, CleanStates, Rolling, Turned, States
      <4> QED
        BY <2>4, <3>1, <4>1, <4>2, <4>3 DEF Deed, GivesUp, Passes
    <3> QED
      BY <1>4, <3>1, <3>2, <3>3, <3>5 DEF CleanOK
  <2> QED
    BY <1>4, <2>3, <2>4, OwnTask DEF TaskFrame
<1> QED
  BY <1>3, <1>4

LEMMA MemberRoles ==
    ASSUME NEW p, NEW e \in Members(p)
    PROVE  Is(conf, e[1], e[2]) /\ e[1] \in HostsOf(conf)
<1>1. /\ e \in Entries /\ e[3] <= Times(conf, e[2])[e[1]]
      /\ e[1] \in Hosts /\ e[3] \in {1, 2}
  BY EntryFacts DEF Members
<1>2. Times(conf, e[2])[e[1]] =
        Cardinality({i \in DOMAIN conf.roles[e[1]] : conf.roles[e[1]][i] = e[2]})
  BY <1>1 DEF Times
<1>3. Is(conf, e[1], e[2])
  <2> SUFFICES ASSUME ~Is(conf, e[1], e[2]) PROVE  FALSE
    OBVIOUS
  <2>1. {i \in DOMAIN conf.roles[e[1]] : conf.roles[e[1]][i] = e[2]} = {}
    BY DEF Is
  <2> QED
    BY <1>1, <1>2, <2>1, FS_EmptySet
<1>4. conf.roles[e[1]] # <<>>
  BY <1>3 DEF Is
<1> QED
  BY <1>1, <1>3, <1>4 DEF HostsOf

LEMMA FailCall ==
    ASSUME TypeInv, TaskInv, NEW e \in AtWork, TaskFrame(e), CtrFrame(e), Deed(e),
           conf' = conf, pc' = pc, raced' = raced,
           StepInv, ServingInv, ProxyInv, OldInv, CleanInv, FailInv
    PROVE  FailInv'
<1>1. e \in Entries /\ e[1] \in Hosts /\ pc \in Stages /\ e \in Members(pc)
  BY WorkFacts
<1>2. failed' \in BOOLEAN
  BY DEF Deed, GivesUp, GoesOn, FailInv
<1>3. HostsOf(conf)' = HostsOf(conf)
  BY DEF HostsOf
<1>4. ASSUME NEW h \in Hosts, LeftOver(h) \/ PortTaken(h), ctr'[h] = ctr[h]
      PROVE  (LeftOver(h) \/ PortTaken(h))'
  BY <1>4, ConfSame DEF LeftOver, PortTaken
<1> SUFFICES ASSUME failed', clean'
             PROVE  \E h \in HostsOf(conf) : Hindered(h)'
  BY <1>1, <1>2, <1>3 DEF FailInv
<1>5. clean
  BY DEF Deed, GivesUp, GoesOn
<1>6. CASE failed
  <2>1. PICK h \in HostsOf(conf) : Hindered(h)
    BY <1>5, <1>6 DEF FailInv
  <2>2. CASE h \in raced
    BY <2>2 DEF Hindered
  <2>3. CASE h \notin raced
    <3>1. h \in Hosts /\ e[1] # h
      BY <2>1, <2>3 DEF Hindered, HostsOf
    <3>2. ctr'[h] = ctr[h]
      BY <3>1 DEF CtrFrame
    <3>3. (LeftOver(h) \/ PortTaken(h))'
      BY <1>4, <2>1, <2>3, <3>1, <3>2 DEF Hindered
    <3>4. ASSUME NEW o \in AtWork' PROVE  o[1] # h
      <4>1. o \in Entries
        BY DEF AtWork
      <4>2. CASE o # e
        BY <2>1, <2>3, <4>1, <4>2, OtherTasks DEF Hindered
      <4> QED
        BY <3>1, <4>2
    <3> QED
      BY <3>3, <3>4 DEF Hindered
  <2> QED
    BY <2>2, <2>3
<1>7. CASE ~failed
  <2> DEFINE h == e[1]
  <2>1. GivesUp(e) /\ Obstacle(e) /\ Kept /\ Quits(e)
    BY <1>7 DEF Deed, GivesUp, GoesOn
  <2>2. h \in HostsOf(conf)
    BY <1>1, MemberRoles
  <2>3. CASE h \in raced
    BY <2>2, <2>3 DEF Hindered
  <2>4. CASE h \notin raced
    <3>1. CleanOK(e) /\ task[e].step # "restart_old"
      BY <1>1, <1>5, <2>4 DEF CleanInv, OldInv
    <3>2. LeftOver(h) \/ PortTaken(h)
      <4>1. CASE task[e].step # "check"
        <5>1. task[e].step \in {"create", "roll_create"} => Svc(e) \in Running
          BY RunOp DEF RunSteps
        <5>2. task[e].step = "rename" /\ Parked(e).st # "absent"
          BY <2>1, <3>1, <4>1, <5>1 DEF Obstacle, CleanOK, CleanStates, Rolling
        <5>3. Svc(e) \in Running
          BY <5>2, RunOp DEF RunSteps
        <5> QED
          BY <5>2, <5>3 DEF LeftOver, Parked
      <4>2. CASE task[e].step = "check"
        <5>1. Svc(e) \in Running /\ Svc(e) # "nginx" /\ Ctr(e).st = "running"
          BY <3>1, <4>2, RunOp DEF RunSteps, StepInv, CleanOK, CleanStates
        <5>2. PICK s \in Running : s = Svc(e)
          BY <5>1
        <5>3. ~Healthy(h, s) /\ ~CanServe(h, s, s)
          <6>1. ~Healthy(h, s) /\ Quiet(e)
            BY <2>1, <4>2, <5>2 DEF Obstacle
          <6> QED
            BY <1>1, <6>1 DEF Quiet
        <5>4. Rivals[s] \cap serving[h] # {}
          BY <5>1, <5>2, <5>3 DEF CanServe, Ctr
        <5>5. s \notin serving[h]
          BY <5>3 DEF Healthy
        <5>6. \A t \in Running : OldName[t] \notin serving[h]
          BY <1>1, <2>4 DEF ServingInv, OldInv
        <5>7. s = "api" /\ "nginx" \in serving[h]
          <6>1. CASE s # "api"
            <7>1. Rivals[s] = {s, OldName[s]}
              BY <5>1, <5>2, <6>1 DEF Rivals
            <7> QED
              BY <5>4, <5>5, <5>6, <7>1
          <6>2. CASE s = "api"
            <7>1. Rivals[s] = {"api", "nginx", OldName["api"], OldName["nginx"]}
              BY <6>2 DEF Rivals, Running
            <7> QED
              BY <5>4, <5>5, <5>6, <6>2, <7>1, NameFacts
          <6> QED
            BY <6>1, <6>2
        <5> QED
          BY <2>4, <4>2, <5>2, <5>7, WhoServes
      <4> QED
        BY <4>1, <4>2
    <3>3. (LeftOver(h) \/ PortTaken(h))'
      BY <1>1, <1>4, <2>1, <3>2 DEF Kept
    <3>4. ASSUME NEW o \in AtWork' PROVE  o[1] # h
      <4>1. o \in Entries /\ o # e
        BY <2>1, OwnTask DEF AtWork
      <4>2. o \in AtWork
        BY <4>1, OtherTasks
      <4> QED
        BY <2>4, <4>1, <4>2, OneGoroutine
    <3> QED
      BY <2>2, <3>3, <3>4 DEF Hindered
  <2> QED
    BY <2>3, <2>4
<1> QED
  BY <1>6, <1>7

LEMMA CallRest ==
    ASSUME NEW e, TaskStep(e) \/ CallFails(e)
    PROVE  result' = result
BY DEF TaskStep, CallFails, Inspect, Restart, Compare, RollList, RollStop, RollWait,
   RollRename, CreateContainer, StartContainer, RollRemove, RunSidekick,
   RemoveNginxProxy, RunHealthcheck, Others

-----------------------------------------------------------------------------
(* The other steps.                                                         *)

\* Outside the stages there is little to show.
LEMMA RestUp ==
    ASSUME AtWork' = {}, pc' \notin Stages
    PROVE  /\ FreshInv' /\ StepInv' /\ RunsInv' /\ WantedInv' /\ ServesInv'
           /\ ProxyInv' /\ CleanInv'
<1>1. FreshInv' /\ StepInv' /\ ProxyInv' /\ CleanInv'
  BY DEF FreshInv, StepInv, ProxyInv, CleanInv
<1>2. \A stage, e, s : ~Due(stage, e, s)'
  BY DEF Due
<1> QED
  BY <1>1, <1>2 DEF RunsInv, WantedInv, ServesInv

LEMMA RestHosts ==
    ASSUME AtWork' = {}, UNCHANGED <<ctr, serving, raced>>, ServingInv, OldInv
    PROVE  ServingInv' /\ OldInv'
BY DEF ServingInv, ServeType, OldInv

\* Where a run has got to does not depend on the machines.
LEMMA ConfiguredSame ==
    ASSUME UNCHANGED <<ctr, conf, result, excused, raced>>,
           \A h \in Hosts : serving[h] \subseteq serving'[h], AsConfigured
    PROVE  AsConfigured'
<1>1. HostsOf(conf)' = HostsOf(conf) /\ HostsOf(conf) \subseteq Hosts
  BY DEF HostsOf
<1>2. \A h : Required(h)' = Required(h) /\ PortTaken(h)' = PortTaken(h)
  BY ConfSame DEF Required, PortTaken
<1>3. \A h, s : AsWanted(h, s)' <=> AsWanted(h, s)
  BY FreshSame
<1> QED
  BY <1>1, <1>2, <1>3 DEF AsConfigured

LEMMA SucceedsSame ==
    ASSUME UNCHANGED <<ctr, conf, result, raced, machine, clean>>, CleanRunSucceeds
    PROVE  CleanRunSucceeds'
<1>1. HostsOf(conf)' = HostsOf(conf) /\ ValidateCluster(conf)' = ValidateCluster(conf)
  BY DEF HostsOf, ValidateCluster, RolesKnown, Is
<1>2. \A h : /\ PortTaken(h)' <=> PortTaken(h)
             /\ LeftOver(h)' <=> LeftOver(h)
             /\ TunnelUp(h)' <=> TunnelUp(h)
  BY ConfSame DEF PortTaken, LeftOver, TunnelUp, DialDocker, CheckDockerVersion
<1> QED
  BY <1>1, <1>2 DEF CleanRunSucceeds

\* Nothing happens but that a process gets its port.
LEMMA SameUp ==
    ASSUME TypeInv, TaskInv, UpInv,
           UNCHANGED <<ctr, pc, conf, task, failed, result, raced, excused>>,
           UNCHANGED <<machine, clean>> \/ clean' = FALSE,
           \A h \in Hosts : serving[h] \subseteq serving'[h], ServingInv'
    PROVE  UpInv'
<1> USE DEF UpInv
<1>1. /\ \A o : Svc(o)' = Svc(o) /\ Ctr(o)' = Ctr(o) /\ Parked(o)' = Parked(o)
      /\ AtWork' = AtWork
  BY DEF Svc, Ctr, Parked, AtWork
<1>2. /\ \A h, s : AsWanted(h, s)' <=> AsWanted(h, s)
      /\ \A h, s : Fresh(h, s)' <=> Fresh(h, s)
  BY FreshSame
<1>3. \A stage, e, s : /\ Due(stage, e, s)' <=> Due(stage, e, s)
                       /\ Begun(stage, e, s)' <=> Begun(stage, e, s)
                       /\ Brought(stage, e, s)' <=> Brought(stage, e, s)
                       /\ Gone(stage, e, s)' <=> Gone(stage, e, s)
  BY ConfSame DEF Due, Begun, Brought, Gone, Earlier
<1>4. \A h, s, steps : Somebody(h, s, steps)' <=> Somebody(h, s, steps)
  BY <1>1 DEF Somebody
<1>5. \A h : PortTaken(h)' <=> PortTaken(h)
  BY ConfSame DEF PortTaken
<1>6. FreshInv' /\ StepInv'
  BY <1>1, <1>2 DEF FreshInv, StepInv
<1>7. RunsInv'
  BY <1>3, <1>4 DEF RunsInv
<1>8. WantedInv'
  BY <1>2, <1>3, <1>4 DEF WantedInv
<1>9. ServesInv'
  <2> SUFFICES ASSUME NEW stage \in Stages, NEW e \in Entries, NEW s \in Running,
                      Due(stage, e, s)', Gone(stage, e, s)', e[1] \notin raced,
                      s # "nginx"
               PROVE  /\ ctr'[e[1]][s].st = "running" /\ AsWanted(e[1], s)'
                      /\ s \in serving'[e[1]] \/ (s = "api" /\ PortTaken(e[1])')
                      /\ \A o \in AtWork' : (o[1] = e[1] /\ Svc(o)' = s) =>
                            task'[o].step \in {"inspect", "compare", "check"}
    BY DEF ServesInv
  <2>1. Due(stage, e, s) /\ Gone(stage, e, s) /\ e[1] \in Hosts
    BY <1>3, EntryFacts
  <2>2. /\ ctr[e[1]][s].st = "running" /\ AsWanted(e[1], s)
        /\ s \in serving[e[1]] \/ (s = "api" /\ PortTaken(e[1]))
        /\ \A o \in AtWork : (o[1] = e[1] /\ Svc(o) = s) =>
              task[o].step \in {"inspect", "compare", "check"}
    BY <2>1 DEF ServesInv
  <2> QED
    BY <1>1, <1>2, <1>5, <2>1, <2>2
<1>10. ProxyInv'
  BY <1>1, ConfSame DEF ProxyInv
<1>11. OldInv'
  BY <1>1 DEF OldInv
<1>12. CleanInv'
  BY <1>1 DEF CleanInv, CleanOK
<1>13. FailInv'
  <2>1. HostsOf(conf)' = HostsOf(conf)
    BY DEF HostsOf
  <2>2. \A h : Hindered(h)' <=> Hindered(h)
    BY <1>1, <1>5 DEF Hindered, LeftOver
  <2> QED
    BY <2>1, <2>2 DEF FailInv
<1>14. RunInv'
  <2>1. ValidateCluster(conf)' = ValidateCluster(conf)
    BY DEF ValidateCluster, RolesKnown, Is
  <2>2. CleanRunSucceeds'
    BY SucceedsSame DEF RunInv, CleanRunSucceeds
  <2> QED
    BY <2>1, <2>2, ConfiguredSame DEF RunInv
<1> QED
  BY <1>6, <1>7, <1>8, <1>9, <1>10, <1>11, <1>12, <1>13, <1>14

LEMMA ServeUp ==
    ASSUME TypeInv, TaskInv, UpInv, NEW k \in Hosts, NEW t, NEW n \in Names,
           Serve(k, t, n)
    PROVE  UpInv'
<1>1. /\ UNCHANGED <<ctr, machine, pc, conf, task, failed, clean, result, raced,
                     excused>>
      /\ serving' = [serving EXCEPT ![k] = @ \cup {n}] /\ ctr[k][n].st = "running"
  BY DEF Serve, CanServe
<1>2. serving \in [Hosts -> SUBSET Names]
  BY DEF UpInv, ServingInv, ServeType
<1>3. /\ serving' \in [Hosts -> SUBSET Names]
      /\ \A h \in Hosts : /\ serving[h] \subseteq serving'[h]
                          /\ serving'[h] \subseteq serving[h] \cup {n}
                          /\ h # k => serving'[h] = serving[h]
  BY <1>1, <1>2
<1>4. ServingInv'
  <2> SUFFICES ASSUME NEW h \in Hosts, NEW m \in serving'[h]
               PROVE  ctr'[h][m].st = "running"
    BY <1>3 DEF ServingInv, ServeType
  <2> QED
    BY <1>1, <1>3 DEF UpInv, ServingInv
<1> QED
  BY <1>1, <1>3, <1>4, SameUp

LEMMA StopsUp ==
    ASSUME TypeInv, TaskInv, UpInv, NEW k \in Hosts, NEW t \in Running,
           ServiceStops(k, t)
    PROVE  UpInv'
<1> USE DEF UpInv
<1>1. /\ UNCHANGED <<machine, pc, conf, task, failed, result, raced>>
      /\ excused' = excused \cup {<<k, t>>} /\ clean' = FALSE
      /\ ctr[k][t].st = "running"
  BY DEF ServiceStops, Fault
<1>2. t \in Names /\ ctr[k][t] \in Containers /\ ServeType
  BY NameFacts DEF TypeInv, ServingInv
<1>3. /\ ctr' \in [Hosts -> [Names -> Containers]]
      /\ \A h \in Hosts : \A n \in Names : (h # k \/ n # t) => ctr'[h][n] = ctr[h][n]
      /\ ctr'[k][t].st = "exited" /\ ctr'[k][t].version = ctr[k][t].version
      /\ ctr'[k][t].cmd = ctr[k][t].cmd
  <2>1. ctr' = [ctr EXCEPT ![k][t] = [ctr[k][t] EXCEPT !.st = "exited"]]
    BY DEF ServiceStops
  <2>2. "exited" \in States
    BY DEF States
  <2>3. /\ [ctr[k][t] EXCEPT !.st = "exited"] \in Containers
        /\ [ctr[k][t] EXCEPT !.st = "exited"].st = "exited"
        /\ [ctr[k][t] EXCEPT !.st = "exited"].version = ctr[k][t].version
        /\ [ctr[k][t] EXCEPT !.st = "exited"].cmd = ctr[k][t].cmd
    BY <1>2, <2>2, WithState, WithStateSame
  <2> QED
    BY <1>2, <2>1, <2>3, PutFacts DEF TypeInv
<1>4. /\ serving' \in [Hosts -> SUBSET Names]
      /\ \A h \in Hosts : \A n : (h # k \/ n # t) =>
            (n \in serving'[h] <=> n \in serving[h])
      /\ t \notin serving'[k]
  BY <1>2 DEF ServiceStops, ServeType
<1>5. /\ \A h \in Hosts : \A n \in Names :
            /\ ctr'[h][n].version = ctr[h][n].version /\ ctr'[h][n].cmd = ctr[h][n].cmd
            /\ ctr'[h][n].st = "absent" <=> ctr[h][n].st = "absent"
            /\ ctr'[h][n].st = "running" => ctr[h][n].st = "running"
  BY <1>1, <1>3
<1>6. \A h \in Hosts : \A s \in Services :
         /\ AsWanted(h, s)' <=> AsWanted(h, s)
         /\ Fresh(h, s)' <=> Fresh(h, s)
  <2> SUFFICES ASSUME NEW h \in Hosts, NEW s \in Services
               PROVE  /\ AsWanted(h, s)' <=> AsWanted(h, s)
                      /\ Fresh(h, s)' <=> Fresh(h, s)
    OBVIOUS
  <2>1. s \in Names
    BY NameFacts
  <2> QED
    BY <1>1, <1>5, <2>1, WantConst DEF AsWanted, Fresh
<1>7. /\ \A o : Svc(o)' = Svc(o) /\ AtWork' = AtWork
      /\ \A o \in AtWork : o[1] \in Hosts /\ Svc(o) \in Services /\ Svc(o) \in Names
  BY <1>1, WorkFacts DEF Svc, AtWork
<1>8. \A stage, e, s : /\ Due(stage, e, s)' => Due(stage, e, s)
                       /\ Due(stage, e, s)' => <<e[1], s>> # <<k, t>>
                       /\ Begun(stage, e, s)' <=> Begun(stage, e, s)
                       /\ Brought(stage, e, s)' <=> Brought(stage, e, s)
                       /\ Gone(stage, e, s)' <=> Gone(stage, e, s)
  BY <1>1, ConfSame DEF Due, Begun, Brought, Gone, Earlier
<1>9. \A h, s, steps : Somebody(h, s, steps)' <=> Somebody(h, s, steps)
  BY <1>1, <1>7 DEF Somebody
<1>10. \A h \in Hosts : PortTaken(h)' <=> PortTaken(h)
  BY <1>1, <1>5, ConfSame, NameFacts DEF PortTaken
<1>11. FreshInv'
  BY <1>1, <1>6, <1>7 DEF FreshInv
<1>12. StepInv'
  BY <1>1, <1>7 DEF StepInv
<1>13. \A s \in Running : s \in Services /\ s \in Names /\ OldName[s] \in Names /\ OldName[s] # t
  BY NameFacts
<1>14. RunsInv'
  <2> SUFFICES ASSUME NEW stage \in Stages, NEW e \in Entries, NEW s \in Running,
                      Due(stage, e, s)', Begun(stage, e, s)'
               PROVE  ctr'[e[1]][s].st = "running" \/ Somebody(e[1], s, Pausing)'
    BY DEF RunsInv
  <2>1. Due(stage, e, s) /\ Begun(stage, e, s) /\ <<e[1], s>> # <<k, t>>
    BY <1>8
  <2>2. ctr'[e[1]][s] = ctr[e[1]][s]
    BY <1>3, <1>13, <2>1, EntryFacts
  <2> QED
    BY <1>9, <2>1, <2>2 DEF RunsInv
<1>15. WantedInv'
  <2> SUFFICES ASSUME NEW stage \in Stages, NEW e \in Entries, NEW s \in Running,
                      Due(stage, e, s)', Brought(stage, e, s)'
               PROVE  Fresh(e[1], s)' \/ Somebody(e[1], s, {"wait", "rename"})'
    BY DEF WantedInv
  <2>1. Due(stage, e, s) /\ Brought(stage, e, s)
    BY <1>8
  <2> QED
    BY <1>6, <1>9, <1>13, <2>1, EntryFacts DEF WantedInv
<1>16. ServesInv'
  <2> SUFFICES ASSUME NEW stage \in Stages, NEW e \in Entries, NEW s \in Running,
                      Due(stage, e, s)', Gone(stage, e, s)', e[1] \notin raced',
                      s # "nginx"
               PROVE  /\ ctr'[e[1]][s].st = "running" /\ AsWanted(e[1], s)'
                      /\ s \in serving'[e[1]] \/ (s = "api" /\ PortTaken(e[1])')
                      /\ \A o \in AtWork' : (o[1] = e[1] /\ Svc(o)' = s) =>
                            task'[o].step \in {"inspect", "compare", "check"}
    BY DEF ServesInv
  <2>1. /\ Due(stage, e, s) /\ Gone(stage, e, s) /\ e[1] \notin raced
        /\ e[1] # k \/ s # t
    BY <1>1, <1>8
  <2>2. /\ ctr[e[1]][s].st = "running" /\ AsWanted(e[1], s)
        /\ s \in serving[e[1]] \/ (s = "api" /\ PortTaken(e[1]))
        /\ \A o \in AtWork : (o[1] = e[1] /\ Svc(o) = s) =>
              task[o].step \in {"inspect", "compare", "check"}
    BY <2>1 DEF ServesInv
  <2>3. ctr'[e[1]][s] = ctr[e[1]][s] /\ e[1] \in Hosts
    BY <1>3, <1>13, <2>1, EntryFacts
  <2> QED
    BY <1>1, <1>4, <1>6, <1>7, <1>10, <1>13, <2>1, <2>2, <2>3
<1>17. ServingInv'
  <2> SUFFICES ASSUME NEW h \in Hosts, NEW n \in serving'[h]
               PROVE  ctr'[h][n].st = "running"
    BY <1>4 DEF ServingInv, ServeType
  <2>1. n \in Names /\ n \in serving[h] /\ (h # k \/ n # t)
    BY <1>4
  <2> QED
    BY <1>3, <2>1 DEF ServingInv
<1>18. ProxyInv'
  BY <1>1, <1>5, <1>7, ConfSame, NameFacts DEF ProxyInv
<1>19. OldInv'
  <2> SUFFICES ASSUME NEW h \in Hosts, h \notin raced
               PROVE  /\ \A s \in Running : ctr'[h][OldName[s]].st # "running"
                      /\ \A e \in AtWork : e[1] = h =>
                            /\ task[e].step # "restart_old"
                            /\ task[e].step = "rename" => Ctr(e)'.st # "running"
    BY <1>1, <1>7 DEF OldInv
  <2>1. \A s \in Running : ctr'[h][OldName[s]].st # "running"
    BY <1>5, <1>13 DEF OldInv
  <2>2. \A e \in AtWork : Ctr(e)'.st = "running" => Ctr(e).st = "running"
    BY <1>5, <1>7 DEF Ctr
  <2> QED
    BY <2>1, <2>2 DEF OldInv
<1>20. CleanInv' /\ FailInv'
  BY <1>1 DEF CleanInv, FailInv
<1>21. RunInv'
  <2>1. ValidateCluster(conf)' = ValidateCluster(conf)
    BY <1>1 DEF ValidateCluster, RolesKnown, Is
  <2>2. CleanRunSucceeds'
    BY <1>1 DEF CleanRunSucceeds
  <2>3. AsConfigured'
    <3> SUFFICES ASSUME result = "up", NEW h \in HostsOf(conf),
                        NEW s \in Required(h), <<h, s>> \notin excused'
                 PROVE  /\ ctr'[h][s].st = "running" /\ AsWanted(h, s)'
                        /\ \/ s \in serving'[h]
                           \/ s = "nginx" \/ h \in raced
                           \/ s = "api" /\ PortTaken(h)'
      BY <1>1, ConfSame DEF AsConfigured, HostsOf, Required
    <3>1. h \in Hosts /\ s \in Running /\ (h # k \/ s # t) /\ <<h, s>> \notin excused
      BY <1>1 DEF HostsOf, Required, Running
    <3>2. /\ ctr[h][s].st = "running" /\ AsWanted(h, s)
          /\ \/ s \in serving[h]
             \/ s = "nginx" \/ h \in raced
             \/ s = "api" /\ PortTaken(h)
      BY <3>1 DEF RunInv, AsConfigured
    <3>3. ctr'[h][s] = ctr[h][s]
      BY <1>3, <1>13, <3>1
    <3> QED
      BY <1>4, <1>6, <1>10, <1>13, <3>1, <3>2, <3>3
  <2> QED
    BY <1>1, <2>1, <2>2, <2>3 DEF RunInv
<1> QED
  BY <1>11, <1>12, <1>14, <1>15, <1>16, <1>17, <1>18, <1>19, <1>20, <1>21


\* What the goroutines of a stage begin with.
LEMMA EnterMore ==
    ASSUME NEW stage \in Stages, Enter(stage), conf' = conf, NEW e \in Members(stage)
    PROVE  /\ task'[e].step \in {"inspect", "rm_inspect", "sidekick_list"}
           /\ Svc(e)' \in {"sidekick", "nginx"}
           /\ Head(task'[e].ops) \in Running => task'[e].step = "inspect"
           /\ Head(task'[e].ops) = "remove_nginx" => Is(conf, e[1], "worker")
           /\ (stage = "control" /\ Is(conf, e[1], "worker"))
              => Head(task'[e].ops) = "remove_nginx"
           /\ (stage # "control" /\ Is(conf, e[1], "controlplane"))
              => Head(task'[e].ops) # "nginx"
           /\ Duties(stage, e[1]) \subseteq Left(task'[e].ops)
<1> DEFINE ops == IF stage = "control" THEN ControlOps(e[1]) ELSE WorkerOps(e[1])
<1>1. e \in Entries
  BY DEF Members
<1>2. task'[e] = Begin(ops)
  BY <1>1 DEF Enter
<1>3. ops \in ControlTails \cup WorkerTails /\ ops # <<>>
  BY ControlPlan, WorkerPlan, ControlStart, WorkerStart, HeadFacts
<1>4. task'[e].ops = ops
  BY <1>2, <1>3, BeginFacts
<1>5. Duties(stage, e[1]) \subseteq Left(task'[e].ops)
  BY <1>4 DEF Duties
<1>6. Head(ops) \in {"remove_nginx", "sidekick", "nginx"}
  BY ControlStart, WorkerStart, HeadFacts
<1>7. /\ task'[e].step = IF Head(ops) = "remove_nginx" THEN "rm_inspect"
                         ELSE IF Head(ops) = "sidekick" THEN "sidekick_list"
                         ELSE "inspect"
      /\ Svc(e)' = IF Head(ops) = "remove_nginx" THEN "nginx" ELSE Head(ops)
  BY <1>2, <1>3, <1>4, BeginFacts DEF Svc
<1>8. stage = "control" /\ Is(conf, e[1], "worker") => Head(ops) = "remove_nginx"
  <2> SUFFICES ASSUME stage = "control", Is(conf, e[1], "worker")
               PROVE  Head(ops) = "remove_nginx"
    OBVIOUS
  <2>1. ops = <<"remove_nginx">> \o <<"sidekick", "api", "controller", "scheduler">>
    BY DEF ControlOps
  <2> QED
    BY <2>1
<1>9. stage = "control" /\ ~Is(conf, e[1], "worker") => Head(ops) = "sidekick"
  <2> SUFFICES ASSUME stage = "control", ~Is(conf, e[1], "worker")
               PROVE  Head(ops) = "sidekick"
    OBVIOUS
  <2>1. ops = <<>> \o <<"sidekick", "api", "controller", "scheduler">>
    BY DEF ControlOps
  <2> QED
    BY <2>1
<1>10. stage # "control" =>
         /\ Head(ops) \in {"sidekick", "nginx"}
         /\ Is(conf, e[1], "controlplane") => Head(ops) = "sidekick"
  <2> SUFFICES ASSUME stage # "control"
               PROVE  /\ Head(ops) \in {"sidekick", "nginx"}
                      /\ Is(conf, e[1], "controlplane") => Head(ops) = "sidekick"
    OBVIOUS
  <2>1. Head(ops) \in {"sidekick", "nginx"}
    BY WorkerStart, HeadFacts
  <2>2. ASSUME Is(conf, e[1], "controlplane") PROVE  Head(ops) = "sidekick"
    <3>1. ops = <<>> \o <<"sidekick", "kubelet", "kubeproxy">>
      BY <2>2 DEF WorkerOps
    <3> QED
      BY <3>1
  <2> QED
    BY <2>1, <2>2
<1> HIDE DEF ops
<1>11. /\ task'[e].step \in {"inspect", "rm_inspect", "sidekick_list"}
       /\ Svc(e)' \in {"sidekick", "nginx"}
  BY <1>6, <1>7
<1>12. Head(task'[e].ops) \in Running => task'[e].step = "inspect"
  BY <1>4, <1>6, <1>7, NameFacts DEF Running
<1>13. Head(task'[e].ops) = "remove_nginx" => Is(conf, e[1], "worker")
  BY <1>4, <1>9, <1>10
<1>14. /\ (stage = "control" /\ Is(conf, e[1], "worker"))
          => Head(task'[e].ops) = "remove_nginx"
       /\ (stage # "control" /\ Is(conf, e[1], "controlplane"))
          => Head(task'[e].ops) # "nginx"
  BY <1>4, <1>8, <1>10
<1> QED
  BY <1>5, <1>11, <1>12, <1>13, <1>14

\* Without goroutines nothing is left to do.
LEMMA NothingLeft ==
    ASSUME AtWork = {}, NEW x \in Entries, NEW stage, NEW s
    PROVE  /\ Gone(stage, x, s) /\ Begun(stage, x, s) /\ Brought(stage, x, s)
           /\ \A h, t, steps : ~Somebody(h, t, steps)
<1>1. task[x] = Done
  BY DEF AtWork
<1>2. Left(task[x].ops) = {}
  BY <1>1, DoneType, LeftLists
<1> QED
  BY <1>2 DEF Gone, Begun, Brought, Somebody

\* On entering a stage only the services of the stages before are due.
LEMMA EnterPast ==
    ASSUME NEW stage \in Stages, Enter(stage), AtWork = {}, UNCHANGED <<conf, excused>>,
           \/ pc = "parse" /\ stage = "control"
           \/ pc \in Stages /\ Rank[stage] = Rank[pc] + 1,
           NEW st \in Stages, NEW x \in Entries, NEW s \in Running,
           Due(st, x, s)', Begun(st, x, s)'
    PROVE  Due(st, x, s)
<1>1. /\ pc' = stage /\ failed' = failed /\ Rank[st] <= Rank[stage]
      /\ x \in Members(st) /\ s \in Duties(st, x[1])
      /\ <<x[1], s>> \notin excused /\ ~failed
  BY ConfSame DEF Due, Enter
<1>2. st # stage
  <2> SUFFICES ASSUME st = stage PROVE  FALSE
    OBVIOUS
  <2>1. s \in Left(task'[x].ops)
    BY <1>1, EnterMore
  <2>2. ~Earlier(st)'
    BY <1>1, RankFacts DEF Earlier
  <2>3. Head(task'[x].ops) = s /\ task'[x].step # "inspect"
    BY <2>1, <2>2 DEF Begun
  <2> QED
    BY <1>1, <2>3, EnterMore
<1>3. pc \in Stages /\ Rank[st] <= Rank[pc]
  <2>1. Rank[st] \in 1 .. 4 /\ Rank[stage] \in 1 .. 4 /\ Rank[st] # Rank[stage]
    BY <1>2, RankFacts
  <2>2. CASE pc = "parse" /\ stage = "control"
    BY <1>1, <1>2, <2>2, RankFacts
  <2>3. CASE pc \in Stages /\ Rank[stage] = Rank[pc] + 1
    <3>1. Rank[pc] \in 1 .. 4
      BY <2>3, RankFacts
    <3> QED
      BY <1>1, <2>1, <2>3, <3>1
  <2> QED
    BY <2>2, <2>3
<1> QED
  BY <1>1, <1>3 DEF Due

LEMMA EnterUp ==
    ASSUME TypeInv, TaskInv, TypeInv', TaskInv', UpInv, NEW stage \in Stages,
           Enter(stage), AtWork = {}, ~failed, ValidateCluster(conf), pc # "idle",
           UNCHANGED <<ctr, serving, conf, excused, clean>>,
           \/ pc = "parse" /\ stage = "control"
           \/ pc \in Stages /\ Rank[stage] = Rank[pc] + 1
    PROVE  UpInv'
<1> USE DEF UpInv
<1>1. /\ pc' = stage /\ failed' = failed /\ result' = result /\ raced \subseteq raced'
      /\ \A o \in AtWork' : o \in Members(stage) /\ o \in Entries
  BY EnterFacts DEF Enter, AtWork
<1>2. \A o \in AtWork' :
         /\ task'[o].step \in {"inspect", "rm_inspect", "sidekick_list"}
         /\ Svc(o)' \in {"sidekick", "nginx"}
  BY <1>1, EnterMore
<1>3. FreshInv' /\ StepInv'
  BY <1>2 DEF FreshInv, StepInv, Replacing
<1>4. /\ \A h, s : AsWanted(h, s)' <=> AsWanted(h, s)
      /\ \A h, s : Fresh(h, s)' <=> Fresh(h, s)
      /\ \A h : PortTaken(h)' <=> PortTaken(h)
  BY FreshSame, ConfSame DEF PortTaken
<1>5. RunsInv'
  <2> SUFFICES ASSUME NEW st \in Stages, NEW x \in Entries, NEW s \in Running,
                      Due(st, x, s)', Begun(st, x, s)'
               PROVE  ctr[x[1]][s].st = "running"
    BY DEF RunsInv
  <2>1. Due(st, x, s)
    BY EnterPast
  <2> QED
    BY <2>1, NothingLeft DEF RunsInv
<1>6. WantedInv'
  <2> SUFFICES ASSUME NEW st \in Stages, NEW x \in Entries, NEW s \in Running,
                      Due(st, x, s)', Brought(st, x, s)'
               PROVE  Fresh(x[1], s)'
    BY DEF WantedInv
  <2>1. Begun(st, x, s)'
    BY DEF Brought, Begun
  <2>2. Due(st, x, s)
    BY <2>1, EnterPast
  <2> QED
    BY <1>4, <2>2, NothingLeft DEF WantedInv
<1>7. ServesInv'
  <2> SUFFICES ASSUME NEW st \in Stages, NEW x \in Entries, NEW s \in Running,
                      Due(st, x, s)', Gone(st, x, s)', x[1] \notin raced',
                      s # "nginx"
               PROVE  /\ ctr'[x[1]][s].st = "running" /\ AsWanted(x[1], s)'
                      /\ s \in serving'[x[1]] \/ (s = "api" /\ PortTaken(x[1])')
                      /\ \A o \in AtWork' : (o[1] = x[1] /\ Svc(o)' = s) =>
                            task'[o].step \in {"inspect", "compare", "check"}
    BY DEF ServesInv
  <2>1. Begun(st, x, s)'
    BY DEF Gone, Begun
  <2>2. Due(st, x, s) /\ Gone(st, x, s) /\ x[1] \notin raced
    BY <1>1, <2>1, EnterPast, NothingLeft
  <2>3. /\ ctr[x[1]][s].st = "running" /\ AsWanted(x[1], s)
        /\ s \in serving[x[1]] \/ (s = "api" /\ PortTaken(x[1]))
    BY <2>2 DEF ServesInv
  <2>4. \A o \in AtWork' : Svc(o)' # s
    BY <1>2, NameFacts
  <2> QED
    BY <1>4, <2>3, <2>4
<1>8. ServingInv'
  BY DEF ServingInv, ServeType
<1>9. ProxyInv'
  <2> SUFFICES ASSUME NEW o \in AtWork'
               PROVE  /\ Head(task'[o].ops) = "remove_nginx" => Is(conf, o[1], "worker")
                      /\ (stage # "control" /\ Is(conf, o[1], "controlplane"))
                         => Head(task'[o].ops) # "nginx"
                      /\ (stage = "control" /\ Is(conf, o[1], "worker"))
                         => Head(task'[o].ops) = "remove_nginx"
    BY <1>1, ConfSame DEF ProxyInv
  <2> QED
    BY <1>1, EnterMore
<1>10. OldInv'
  BY <1>1, <1>2 DEF OldInv
<1>11. CleanInv'
  <2> SUFFICES ASSUME NEW o \in AtWork' PROVE  CleanOK(o)'
    BY DEF CleanInv
  <2>1. Ctr(o)' \in Containers
    <3>1. o[1] \in Hosts /\ Svc(o)' \in Names
      BY <1>1, <1>2, EntryFacts, NameFacts
    <3> QED
      BY <3>1 DEF TypeInv, Ctr
  <2>2. Ctr(o)'.st \in States
    BY <2>1 DEF Containers
  <2>3. CleanStates(task'[o].step) = States /\ task'[o].step \notin Rolling
    BY <1>2 DEF CleanStates, Rolling
  <2> QED
    BY <1>2, <2>2, <2>3, NameFacts DEF CleanOK
<1>12. FailInv'
  BY <1>1 DEF FailInv
<1>13. RunInv'
  <2>1. ValidateCluster(conf)' = ValidateCluster(conf)
    BY DEF ValidateCluster, RolesKnown, Is
  <2>2. result' = "none" /\ conf' \in Configs
    BY <1>1 DEF RunInv
  <2> QED
    BY <1>1, <2>1, <2>2 DEF RunInv, AsConfigured, CleanRunSucceeds
<1> QED
  BY <1>3, <1>5, <1>6, <1>7, <1>8, <1>9, <1>10, <1>11, <1>12, <1>13

\* A host with a role has an entry in the errgroup of it.
LEMMA EntryOf ==
    ASSUME conf \in Configs, NEW h \in Hosts, NEW r \in Roles, Is(conf, h, r)
    PROVE  /\ <<h, r, 1>> \in Entries
           /\ r = "controlplane" => /\ <<h, r, 1>> \in Members("control")
                                    /\ <<h, r, 1>> \in Members("worker_control")
           /\ r = "etcd" => <<h, r, 1>> \in Members("worker_etcd")
           /\ r = "worker" => <<h, r, 1>> \in Members("worker_worker")
<1> DEFINE listed == {i \in DOMAIN conf.roles[h] : conf.roles[h][i] = r}
<1>1. Times(conf, r)[h] = Cardinality(listed)
  BY DEF Times
<1>2. listed # {}
  BY DEF Is
<1>3. IsFiniteSet(listed)
  <2>1. conf.roles[h] \in Seq(STRING)
    BY PlanesAssumption
  <2>2. DOMAIN conf.roles[h] = 1 .. Len(conf.roles[h]) /\ Len(conf.roles[h]) \in Nat
    BY <2>1
  <2>3. IsFiniteSet(1 .. Len(conf.roles[h]))
    <3>1. \A n \in Int : IsFiniteSet(1 .. n)
      BY FS_Interval
    <3> QED
      BY <2>2, <3>1
  <2> QED
    BY <2>2, <2>3, FS_Subset
<1>4. Cardinality(listed) \in Nat /\ Cardinality(listed) # 0
  BY <1>2, <1>3, FS_CardinalityType, FS_EmptySet
<1> HIDE DEF listed
<1>5. 1 <= Times(conf, r)[h]
  BY <1>1, <1>4
<1>6. <<h, r, 1>> \in Entries
  BY DEF Entries
<1> QED
  BY <1>5, <1>6 DEF Members

\* A configured host has a role.
LEMMA RoleOf ==
    ASSUME conf \in Configs, RolesKnown(conf), NEW h \in HostsOf(conf)
    PROVE  h \in Hosts /\ \E r \in Roles : Is(conf, h, r)
<1>1. h \in Hosts /\ conf.roles[h] # <<>>
  BY DEF HostsOf
<1>2. conf.roles[h] \in Seq(STRING)
  BY <1>1, PlanesAssumption
<1>3. 1 \in DOMAIN conf.roles[h]
  BY <1>1, <1>2
<1> QED
  BY <1>1, <1>3 DEF RolesKnown, Is

\* Every required service is the duty of some stage.
LEMMA DutyOf ==
    ASSUME conf \in Configs, RolesKnown(conf), NEW h \in HostsOf(conf),
           NEW s \in Required(h)
    PROVE  \E stage \in Stages : \E e \in Entries :
              e[1] = h /\ e \in Members(stage) /\ s \in Duties(stage, h)
<1>1. PICK r \in Roles : h \in Hosts /\ Is(conf, h, r)
  BY RoleOf
<1>2. CASE s \in {"api", "controller", "scheduler"}
  <2>1. Is(conf, h, "controlplane") /\ "controlplane" \in Roles
    BY <1>2 DEF Required, Roles
  <2> DEFINE e == <<h, "controlplane", 1>>
  <2>2. e \in Entries /\ e \in Members("control") /\ e[1] = h
    BY <1>1, <2>1, EntryOf
  <2>3. "control" \in Stages /\ s \in Duties("control", h)
    BY <1>2, DutyFacts DEF Stages
  <2> QED
    BY <2>2, <2>3
<1>3. CASE s \notin {"api", "controller", "scheduler"}
  <2> DEFINE e == <<h, r, 1>>
             stage == IF r = "etcd" THEN "worker_etcd"
                      ELSE IF r = "controlplane" THEN "worker_control"
                      ELSE "worker_worker"
  <2>1. e \in Entries /\ e \in Members(stage) /\ e[1] = h
    BY <1>1, EntryOf DEF Roles
  <2>2. stage \in Stages /\ stage # "control"
    BY DEF Stages
  <2>3. s \in Duties(stage, h)
    BY <1>3, <2>2, DutyFacts DEF Required
  <2> QED
    BY <2>1, <2>2, <2>3
<1> QED
  BY <1>2, <1>3

\* When the last errgroup has ended without an error, all services are up.
LEMMA AllUp ==
    ASSUME UpInv, pc = "worker_worker", AtWork = {}, ~failed,
           NEW h \in HostsOf(conf), NEW s \in Required(h), <<h, s>> \notin excused
    PROVE  /\ ctr[h][s].st = "running" /\ AsWanted(h, s)
           /\ \/ s \in serving[h]
              \/ s = "nginx" \/ h \in raced
              \/ s = "api" /\ PortTaken(h)
<1> USE DEF UpInv
<1>1. conf \in Configs /\ RolesKnown(conf) /\ pc \in Stages
  BY DEF RunInv, ValidateCluster, Stages
<1>2. s \in Running
  BY DEF Required, Running
<1>3. PICK stage \in Stages, e \in Entries :
         e[1] = h /\ e \in Members(stage) /\ s \in Duties(stage, h)
  BY <1>1, DutyOf
<1>4. Due(stage, e, s)
  <2>1. Rank[stage] <= Rank[pc]
    BY DEF Rank, Stages
  <2> QED
    BY <1>1, <1>3, <2>1 DEF Due
<1>5. /\ Gone(stage, e, s) /\ Begun(stage, e, s) /\ Brought(stage, e, s)
      /\ \A steps : ~Somebody(h, s, steps)
  BY NothingLeft
<1>6. ctr[h][s].st = "running"
  BY <1>2, <1>3, <1>4, <1>5 DEF RunsInv
<1>7. AsWanted(h, s)
  BY <1>2, <1>3, <1>4, <1>5, <1>6 DEF WantedInv, Fresh
<1>8. h \notin raced /\ s # "nginx" => s \in serving[h] \/ (s = "api" /\ PortTaken(h))
  BY <1>2, <1>3, <1>4, <1>5 DEF ServesInv
<1> QED
  BY <1>6, <1>7, <1>8

\* The run ends, one way or the other.
LEMMA EndUp ==
    ASSUME UpInv, NEW how, End(how), UNCHANGED <<ctr, serving, raced>>,
           AsConfigured', CleanRunSucceeds'
    PROVE  UpInv'
<1>1. AtWork' = {} /\ pc' = "idle" /\ failed' = FALSE
  BY EndFacts DEF End
<1>2. pc' \notin Stages
  BY <1>1 DEF Stages
<1>3. /\ FreshInv' /\ StepInv' /\ RunsInv' /\ WantedInv' /\ ServesInv'
      /\ ProxyInv' /\ CleanInv'
  BY <1>1, <1>2, RestUp
<1>4. ServingInv' /\ OldInv'
  BY <1>1, RestHosts DEF UpInv
<1>5. FailInv' /\ RunInv'
  BY <1>1, <1>2 DEF FailInv, RunInv
<1> QED
  BY <1>3, <1>4, <1>5 DEF UpInv

LEMMA ParseUp ==
    ASSUME TypeInv, TaskInv, TypeInv', TaskInv', UpInv, ParseAndTunnel
    PROVE  UpInv'
<1>1. /\ pc = "parse" /\ AtWork = {}
      /\ UNCHANGED <<ctr, serving, machine, conf, excused, clean>>
  BY IdleFacts DEF ParseAndTunnel, hostVars, NoFault
<1>2. ~failed
  BY <1>1 DEF UpInv, FailInv, Stages
<1>3. CASE ValidateCluster(conf) /\ Enter("control")
  <2>1. "control" \in Stages
    BY DEF Stages
  <2> QED
    BY <1>1, <1>2, <1>3, <2>1, EnterUp
<1>4. CASE ~(ValidateCluster(conf) /\ TunnelHosts) /\ End("err") /\ UNCHANGED raced
  <2>1. result' = "err"
    BY <1>4 DEF End
  <2>2. AsConfigured'
    BY <2>1 DEF AsConfigured
  <2>3. CleanRunSucceeds'
    <3>1. /\ ValidateCluster(conf)' = ValidateCluster(conf)
          /\ HostsOf(conf)' = HostsOf(conf)
          /\ \A h : TunnelUp(h)' <=> TunnelUp(h)
      BY <1>1 DEF ValidateCluster, RolesKnown, Is, HostsOf, TunnelUp, DialDocker,
                  CheckDockerVersion
    <3> QED
      BY <1>4, <3>1 DEF CleanRunSucceeds, TunnelHosts
  <2> QED
    BY <1>1, <1>4, <2>2, <2>3, EndUp
<1> QED
  BY <1>3, <1>4 DEF ParseAndTunnel

LEMMA WaitUp ==
    ASSUME TypeInv, TaskInv, TypeInv', TaskInv', UpInv, Wait
    PROVE  UpInv'
<1>1. /\ AtWork = {} /\ pc \in DOMAIN After \ {"parse"}
      /\ UNCHANGED <<ctr, serving, machine, conf, excused, clean>>
  BY DEF Wait, hostVars, NoFault
<1>2. /\ pc \in Stages /\ pc # "idle"
      /\ After[pc] # "end" => /\ After[pc] \in Stages
                              /\ Rank[After[pc]] = Rank[pc] + 1
      /\ After[pc] = "end" => pc = "worker_worker"
  BY <1>1 DEF After, Stages, Rank
<1>3. conf \in Configs /\ ValidateCluster(conf) /\ failed \in BOOLEAN
  BY <1>2 DEF UpInv, RunInv, FailInv
<1>4. /\ HostsOf(conf)' = HostsOf(conf)
      /\ \A h : PortTaken(h)' <=> PortTaken(h)
      /\ \A h : LeftOver(h)' <=> LeftOver(h)
  BY <1>1, ConfSame DEF HostsOf, PortTaken, LeftOver
<1>5. CASE failed /\ End("err") /\ UNCHANGED raced
  <2>1. result' = "err"
    BY <1>5 DEF End
  <2>2. AsConfigured'
    BY <2>1 DEF AsConfigured
  <2>3. CleanRunSucceeds'
    <3> SUFFICES ASSUME clean PROVE  CleanRunSucceeds'
      BY <1>1 DEF CleanRunSucceeds
    <3>1. PICK h \in HostsOf(conf) : Hindered(h)
      BY <1>5 DEF UpInv, FailInv
    <3> QED
      BY <1>4, <1>5, <3>1 DEF CleanRunSucceeds, Hindered
  <2> QED
    BY <1>1, <1>5, <2>2, <2>3, EndUp
<1>6. CASE ~failed /\ After[pc] = "end" /\ End("up") /\ UNCHANGED raced
  <2>1. result' = "up"
    BY <1>6 DEF End
  <2>2. CleanRunSucceeds'
    BY <2>1 DEF CleanRunSucceeds
  <2>3. AsConfigured'
    <3> SUFFICES ASSUME NEW h \in HostsOf(conf), NEW s \in Required(h),
                        <<h, s>> \notin excused
                 PROVE  /\ ctr'[h][s].st = "running" /\ AsWanted(h, s)'
                        /\ \/ s \in serving'[h]
                           \/ s = "nginx" \/ h \in raced'
                           \/ s = "api" /\ PortTaken(h)'
      BY <1>1, <1>4, ConfSame DEF AsConfigured, Required
    <3>1. AsWanted(h, s)' <=> AsWanted(h, s)
      BY <1>1, FreshSame
    <3>2. /\ ctr[h][s].st = "running" /\ AsWanted(h, s)
          /\ \/ s \in serving[h]
             \/ s = "nginx" \/ h \in raced
             \/ s = "api" /\ PortTaken(h)
      BY <1>1, <1>2, <1>6, AllUp
    <3> QED
      BY <1>1, <1>4, <1>6, <3>1, <3>2
  <2> QED
    BY <1>1, <1>6, <2>2, <2>3, EndUp
<1>7. CASE ~failed /\ After[pc] # "end" /\ Enter(After[pc])
  BY <1>1, <1>2, <1>3, <1>7, EnterUp
<1> QED
  BY <1>5, <1>6, <1>7 DEF Wait

LEMMA CallUp ==
    ASSUME TypeInv, TaskInv, TypeInv', TaskInv', UpInv, NEW e \in AtWork,
           TaskStep(e) \/ CallFails(e)
    PROVE  UpInv'
<1> USE DEF UpInv
<1>1. Deed(e) /\ Frame(e) /\ TaskFrame(e) /\ CtrFrame(e)
  BY CallDeed DEF ServingInv
<1>2. UNCHANGED <<pc, conf, raced, result>> /\ pc \in Stages
  BY <1>1, CallRest, WorkFacts DEF Frame
<1>3. FreshInv' /\ StepInv' /\ RunsInv' /\ WantedInv'
  BY <1>1, <1>2, FreshCall, StepCall, RunsCall, WantedCall
<1>4. ServesInv' /\ ServingInv' /\ ProxyInv' /\ OldInv'
  BY <1>1, <1>2, ServesCall, ServingCall, ProxyCall, OldCall
<1>5. CleanInv' /\ FailInv'
  BY <1>1, <1>2, CleanCall, FailCall
<1>6. RunInv'
  <2>1. pc # "idle" /\ ValidateCluster(conf)' = ValidateCluster(conf)
    BY <1>2 DEF Stages, ValidateCluster, RolesKnown, Is
  <2> QED
    BY <1>2, <2>1 DEF RunInv, AsConfigured, CleanRunSucceeds
<1> QED
  BY <1>3, <1>4, <1>5, <1>6

\* UpInv is inductive.
LEMMA UpStep ==
    TypeInv /\ TaskInv /\ UpInv /\ TypeInv' /\ TaskInv' /\ [Next]_vars => UpInv'
<1> SUFFICES ASSUME TypeInv, TaskInv, UpInv, TypeInv', TaskInv', [Next]_vars
             PROVE  UpInv'
  OBVIOUS
<1>1. ASSUME NEW c \in Configs, StartUp(c) PROVE  UpInv'
  <2>1. /\ UNCHANGED <<ctr, serving, task, failed, raced>> /\ pc = "idle"
        /\ pc' = "parse" /\ conf' = c /\ result' = "none"
    BY <1>1 DEF StartUp, hostVars
  <2>2. AtWork' = {} /\ pc' \notin Stages /\ pc \notin Stages
    BY <2>1, IdleFacts DEF AtWork, Stages
  <2>3. /\ FreshInv' /\ StepInv' /\ RunsInv' /\ WantedInv' /\ ServesInv'
        /\ ProxyInv' /\ CleanInv'
    BY <2>2, RestUp
  <2>4. ServingInv' /\ OldInv'
    BY <2>1, <2>2, RestHosts DEF UpInv
  <2>5. FailInv'
    BY <2>1, <2>2 DEF UpInv, FailInv
  <2>6. RunInv'
    BY <2>1, <2>2 DEF RunInv, AsConfigured, CleanRunSucceeds
  <2> QED
    BY <2>3, <2>4, <2>5, <2>6 DEF UpInv
<1>2. CASE ParseAndTunnel
  BY <1>2, ParseUp
<1>3. CASE Wait
  BY <1>3, WaitUp
<1>4. ASSUME NEW e \in AtWork, TaskStep(e) \/ CallFails(e) PROVE  UpInv'
  BY <1>4, CallUp
<1>5. CASE Abort
  <2>1. /\ End("err") /\ result' = "err" /\ clean' = FALSE
        /\ UNCHANGED <<ctr, serving, raced>>
    BY <1>5 DEF Abort, Fault, End, hostVars
  <2>2. AsConfigured' /\ CleanRunSucceeds'
    BY <2>1 DEF AsConfigured, CleanRunSucceeds
  <2> QED
    BY <2>1, <2>2, EndUp
<1>6. ASSUME NEW h \in Hosts, NEW s \in Running,
             Serve(h, s, s) \/ Serve(h, s, OldName[s])
      PROVE  UpInv'
  BY <1>6, ServeUp, NameFacts
<1>7. ASSUME NEW h \in Hosts, NEW s \in Running, ServiceStops(h, s) PROVE  UpInv'
  BY <1>7, StopsUp
<1>8. ASSUME NEW h \in Hosts, MachineChanges(h) \/ MachineReturns(h)
      PROVE  UpInv'
  <2>1. /\ UNCHANGED <<ctr, serving, pc, conf, task, failed, result, raced, excused>>
        /\ clean' = FALSE
    BY <1>8 DEF MachineChanges, MachineReturns, Fault
  <2>2. ServingInv'
    BY <2>1 DEF UpInv, ServingInv, ServeType
  <2> QED
    BY <2>1, <2>2, SameUp
<1>9. CASE UNCHANGED vars
  <2>1. ServingInv'
    BY <1>9 DEF vars, hostVars, UpInv, ServingInv, ServeType
  <2> QED
    BY <1>9, <2>1, SameUp DEF vars, hostVars
<1> QED
  BY <1>1, <1>2, <1>3, <1>4, <1>5, <1>6, <1>7, <1>8, <1>9 DEF Next

LEMMA UpInit == Init => UpInv
<1> SUFFICES ASSUME Init PROVE  UpInv
  OBVIOUS
<1>1. /\ AtWork = {} /\ pc = "idle" /\ pc \notin Stages /\ ~failed
      /\ result = "none" /\ failed \in BOOLEAN
  BY DEF Init, AtWork, Stages
<1>2. FreshInv /\ StepInv /\ ProxyInv /\ CleanInv
  BY <1>1 DEF FreshInv, StepInv, ProxyInv, CleanInv
<1>3. RunsInv /\ WantedInv /\ ServesInv
  BY <1>1 DEF RunsInv, WantedInv, ServesInv, Due
<1>4. ServingInv
  BY DEF Init, ServingInv, ServeType
<1>5. OldInv
  <2>1. \A h \in Hosts : \A s \in Running : ctr[h][OldName[s]].st = "absent"
    BY NameFacts DEF Init, NoContainer
  <2> QED
    BY <1>1, <2>1 DEF OldInv
<1>6. FailInv /\ RunInv
  BY <1>1 DEF FailInv, RunInv, AsConfigured, CleanRunSucceeds
<1> QED
  BY <1>2, <1>3, <1>4, <1>5, <1>6 DEF UpInv

\* In every state, a service that a goroutine has gone on from is up, or
\* somebody is at work on it, and a run that has failed has a reason to.
THEOREM UpInvHolds == Spec => []UpInv
<1>1. Init => UpInv
  BY UpInit
<1>2. PlanesInv /\ PlanesInv' /\ UpInv /\ [Next]_vars => UpInv'
  BY UpStep DEF PlanesInv
<1> QED
  BY <1>1, <1>2, PlanesInvHolds, PTL DEF Spec

\* After a successful run every service of every configured host runs as
\* configured and serves, with the exceptions the property names.  The next
\* errgroup may replace what the last one started, so that it does not follow
\* from one goroutine's health checks: what one has brought up stays up, or
\* another is about to start it again.
THEOREM AsConfiguredHolds == Spec => []AsConfigured
<1>1. UpInv => AsConfigured
  BY DEF UpInv, RunInv
<1> QED
  BY <1>1, UpInvHolds, PTL

\* A run without faults of its own goes through.  On a host where no role is
\* listed twice every call finds the container the goroutine left there, so
\* that only the old-<service> of an earlier run, or nginx-proxy on the API
\* server's port, can be in its way; and whatever was is still there when the
\* run ends.
THEOREM CleanRunSucceedsHolds == Spec => []CleanRunSucceeds
<1>1. UpInv => CleanRunSucceeds
  BY DEF UpInv, RunInv
<1> QED
  BY <1>1, UpInvHolds, PTL
=============================================================================
