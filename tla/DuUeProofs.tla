----------------------------- MODULE DuUeProofs -----------------------------
(***************************************************************************)
(* Proofs about the UE contexts of the DU, for any number of indexes, UEs  *)
(* and reports.                                                            *)
(*                                                                         *)
(* None of the properties is inductive.  DuInv says, for each index, which *)
(* contexts exist at each point of each procedure, what may be queued at   *)
(* the sequencer while it runs, where the scheduler's answer is, and that  *)
(* a task of the RLF detector precedes the resumption of the procedure     *)
(* that has removed the MAC DL context.  An action touches one index: the  *)
(* others are carried over by IndexFrame.                                  *)
(***************************************************************************)
EXTENDS DuUe, Integers, TLAPS

(* Leaves are small, but many: the provers get more than the default seconds. *)
USE ZenonT(5), SMTT(20), ZenonT(40), SMTT(40)

-----------------------------------------------------------------------------
(* The inductive invariant *)

Removals == {"release", "delete"}
Procedures == {"create", "setup", "release", "delete"}
Tasks == [kind : Procedures \union {"erase", "resume", "ready", "rlf"}, ue_index : Indexes, ue : Ues]

\* Queue q holds a task of these kinds for index i; it holds one at most; all of
\* them are of UE u.
Matches(t, kinds, i) == t.kind \in kinds /\ t.ue_index = i
Has(q, kinds, i) == \E k \in DOMAIN q : Matches(q[k], kinds, i)
Once(q, kinds, i) == \A k, m \in DOMAIN q : Matches(q[k], kinds, i) /\ Matches(q[m], kinds, i) => k = m
Owned(q, kinds, i, u) == \A k \in DOMAIN q : Matches(q[k], kinds, i) => q[k].ue = u

\* Every RLF task of index i has the resumption of the UE's procedure behind it
Covered(q, i) ==
    \A k \in DOMAIN q : Matches(q[k], {"rlf"}, i) => \E m \in DOMAIN q : k < m /\ Matches(q[m], {"resume"}, i)

\* The events of index i are of this kind and UE
Expected(q, i, kind, u) == \A k \in DOMAIN q : q[k].ue_index = i => q[k] = Task(kind, i, u)

\* A queue of tasks that the CU asked for UE u: a removal is the last one
Served(q, u) ==
    \A k \in DOMAIN q :
       /\ q[k].ue = u /\ q[k].kind \in Removals \union {"setup"}
       /\ q[k].kind \in Removals => k = Len(q)
HasRemoval(q) == \E k \in DOMAIN q : q[k].kind \in Removals

\* The parts that a procedure may still have before it.  Those with "resume" have
\* done their work elsewhere and wait for the control executor.
C0 == <<"ul", "dl", "sched">>
C0r == <<"resume", "dl", "sched">>
C1 == <<"dl", "sched">>
C1r == <<"resume", "sched">>
C2 == <<"sched">>
W0 == <<"wait", "ue", "sched", "dl", "ul">>
D0 == <<"ue", "sched", "dl", "ul">>
D0r == <<"resume", "sched", "dl", "ul">>
D1 == <<"sched", "dl", "ul">>
D2 == <<"dl", "ul">>
D2r == <<"resume", "ul">>
D3 == <<"ul">>
D3r == <<"resume">>
S0 == <<"ul", "dl", "sched", "ul", "dl">>
S0r == <<"resume", "dl", "sched", "ul", "dl">>
S1 == <<"dl", "sched", "ul", "dl">>
S1r == <<"resume", "sched", "ul", "dl">>
S2 == <<"sched", "ul", "dl">>
S3 == <<"ul", "dl">>
S3r == <<"resume", "dl">>
S4 == <<"dl">>
SetupStages == {C0, C0r, C1, C1r, C2, S0, S0r, S1, S1r, S2, S3, S3r, S4, D3r}
Stages == SetupStages \union {<<>>, W0, D0, D0r, D1, D2, D2r, D3}

DuTypeOK ==
    /\ du_db \in [Indexes -> Ues \union {None}] /\ f1ap_ues \in [Indexes -> Ues \union {None}]
    /\ mac_ctrl \in [Indexes -> Ues \union {None}] /\ mac_ul \in [Indexes -> Ues \union {None}]
    /\ mac_dl \in [Indexes -> Ues \union {None}] /\ sched \in [Indexes -> Ues \union {None}]
    /\ notifier \in [Indexes -> Ues \union {None, Uninitialised}]
    /\ ues_to_rem \subseteq Indexes /\ erasing \in Indexes \union {None}
    /\ sched_events \in Seq(Tasks) /\ ctrl_queue \in Seq(Tasks)
    /\ tasks \in [Indexes -> Seq(Tasks)]
    /\ ready \in [Indexes -> BOOLEAN]
    /\ proc \in [Indexes -> [kind : Procedures \union {"none"}, parts : Stages]]
    /\ triggers \in [Ues -> Nat] /\ created \in Nat /\ known \subseteq Ues
    /\ phy \in [Dirs -> [pc : {"idle", "count", "notify"}, ue_index : Indexes \union {None}, ack : BOOLEAN]]

\* UEs are numbered in the order of their creation, and a UE has one index.
UesDistinct ==
    /\ \A i \in Indexes : du_db[i] # None => du_db[i] <= created
    /\ \A i, j \in Indexes : du_db[i] # None /\ du_db[i] = du_db[j] => i = j
    /\ \A u \in known : u <= created

\* The contexts of index i: of F1AP and MAC controller, of MAC UL, MAC DL and the scheduler
Contexts(i, ctrl, ul, dl, s) ==
    f1ap_ues[i] = ctrl /\ mac_ctrl[i] = ctrl /\ mac_ul[i] = ul /\ mac_dl[i] = dl /\ sched[i] = s

EventDue(i) == Has(sched_events, Procedures, i)
ReadyDue(i) == Has(ctrl_queue, {"ready"}, i)

\* What the contexts are while no procedure runs, and at each point of one.
Idling(i) ==
    /\ proc[i] = NoProc
    /\ \/ Contexts(i, None, None, None, None)
       \/ du_db[i] # None /\ Contexts(i, du_db[i], du_db[i], du_db[i], du_db[i])

Creating(i) ==
    LET u == du_db[i] IN
    /\ proc[i].kind = "create" /\ u # None /\ u \notin known /\ tasks[i] = <<>>
    /\ \/ proc[i].parts = C0 /\ Contexts(i, u, None, None, None)
       \/ proc[i].parts \in {C0r, C1} /\ Contexts(i, u, u, None, None)
       \/ proc[i].parts = C1r /\ Contexts(i, u, u, u, None)
       \/ proc[i].parts = C2 /\ Contexts(i, u, u, u, IF EventDue(i) THEN None ELSE u)

SettingUp(i) ==
    LET u == du_db[i] IN
    /\ proc[i].kind = "setup" /\ u # None
    /\ proc[i].parts \in SetupStages /\ Contexts(i, u, u, u, u)

Removing(i) ==
    LET u == du_db[i] IN
    /\ proc[i].kind \in Removals /\ u # None /\ triggers[u] > 0 /\ tasks[i] = <<>>
    /\ \/ proc[i].parts \in {W0, D0, D0r} /\ Contexts(i, u, u, u, u)
       \/ proc[i].parts = D1 /\ Contexts(i, u, u, u, IF EventDue(i) \/ i \in ues_to_rem \/ erasing = i THEN u ELSE None)
       \/ proc[i].parts = D2 /\ Contexts(i, u, u, u, IF erasing = i THEN u ELSE None)
       \/ proc[i].parts \in {D2r, D3} /\ Contexts(i, u, u, None, None)
       \/ proc[i].parts = D3r /\ Contexts(i, u, None, None, None)

ProcInv(i) == Idling(i) \/ Creating(i) \/ SettingUp(i) \/ Removing(i)

\* What is queued at the sequencer of index i.
TasksInv(i) ==
    LET u == du_db[i] IN
    \/ tasks[i] = <<>> /\ (u = None => proc[i] = NoProc)
    \/ tasks[i] = <<Task("create", i, u)>> /\ u # None /\ u \notin known /\ proc[i] = NoProc /\ f1ap_ues[i] = None
    \/ tasks[i] = <<Task("erase", i, u)>> /\ u # None /\ proc[i] = NoProc /\ f1ap_ues[i] = None
    \/ /\ u # None /\ f1ap_ues[i] = u /\ proc[i].kind \in {"none", "setup"}
       /\ Served(tasks[i], u) /\ (HasRemoval(tasks[i]) => triggers[u] > 0)

\* Where the response is that a procedure awaits from the scheduler.  The UE that
\* the scheduler is erasing was answered for, and is still in the MAC DL.
ResponseInv(i) ==
    /\ At(i, "sched") <=> EventDue(i) \/ i \in ues_to_rem \/ ReadyDue(i) \/ ready[i]
    /\ EventDue(i) => i \notin ues_to_rem /\ ~ReadyDue(i) /\ ~ready[i]
    /\ i \in ues_to_rem => ~ReadyDue(i) /\ ~ready[i] /\ proc[i].kind \in Removals
    /\ ReadyDue(i) => ~ready[i]
    /\ Once(sched_events, Procedures, i) /\ Once(ctrl_queue, {"ready"}, i)
    /\ Expected(sched_events, i, proc[i].kind, du_db[i])
    /\ erasing = i => proc[i].kind \in Removals /\ proc[i].parts \in {D1, D2} /\ ~EventDue(i) /\ i \notin ues_to_rem

\* A procedure that worked on another executor has one resumption queued.
ResumeInv(i) ==
    /\ At(i, "resume") <=> Has(ctrl_queue, {"resume"}, i)
    /\ Once(ctrl_queue, {"resume"}, i)

\* The notifier of the RLF detector is that of the UE in the MAC DL, and RLF tasks
\* are of this UE or come before the resumption after its removal there.
NotifierInv(i) ==
    /\ mac_dl[i] # None => notifier[i] = mac_dl[i]
    /\ notifier[i] \in Ues => mac_dl[i] = notifier[i]
    /\ notifier[i] = Uninitialised => proc[i].kind \notin Removals
    /\ Owned(ctrl_queue, {"rlf"}, i, du_db[i])
    /\ Has(ctrl_queue, {"rlf"}, i) =>
         /\ du_db[i] # None
         /\ mac_dl[i] = du_db[i] \/ (proc[i].parts = D2r /\ Covered(ctrl_queue, i))

PhyInv == \A d \in Dirs : phy[d].pc # "idle" => phy[d].ue_index \in Indexes /\ notifier[phy[d].ue_index] # Uninitialised

IndexInv(i) == ProcInv(i) /\ TasksInv(i) /\ ResponseInv(i) /\ ResumeInv(i) /\ NotifierInv(i)

DuInv == DuTypeOK /\ DuAssertionsHold /\ UesDistinct /\ PhyInv /\ \A i \in Indexes : IndexInv(i)

-----------------------------------------------------------------------------
(* Queues *)

\* What a task added at the end changes.
LEMMA AppendFacts ==
    ASSUME NEW q \in Seq(Tasks), NEW t \in Tasks
    PROVE  /\ Append(q, t) \in Seq(Tasks)
           /\ \A kinds, i : Has(Append(q, t), kinds, i) <=> Has(q, kinds, i) \/ Matches(t, kinds, i)
           /\ \A kinds, i : Once(q, kinds, i) /\ ~(Has(q, kinds, i) /\ Matches(t, kinds, i)) => Once(Append(q, t), kinds, i)
           /\ \A kinds, i, u : Owned(q, kinds, i, u) /\ (Matches(t, kinds, i) => t.ue = u) => Owned(Append(q, t), kinds, i, u)
           /\ \A i, kind, u : Expected(q, i, kind, u) /\ (t.ue_index = i => t = Task(kind, i, u)) => Expected(Append(q, t), i, kind, u)
           /\ \A i : Covered(q, i) /\ ~Matches(t, {"rlf"}, i) => Covered(Append(q, t), i)
           /\ \A i : Matches(t, {"resume"}, i) => Covered(Append(q, t), i)
           /\ \A u : Served(q, u) /\ ~HasRemoval(q) /\ t.ue = u /\ t.kind \in Removals \union {"setup"} => Served(Append(q, t), u)
           /\ HasRemoval(Append(q, t)) => HasRemoval(q) \/ t.kind \in Removals
  <1>. DEFINE r == Append(q, t)
  <1>1. /\ r \in Seq(Tasks) /\ Len(q) \in Nat /\ Len(r) = Len(q) + 1 /\ DOMAIN q = 1 .. Len(q)
        /\ DOMAIN r = 1 .. Len(q) + 1 /\ r[Len(q) + 1] = t
    OBVIOUS
  <1>2. \A k \in DOMAIN q : k \in DOMAIN r /\ r[k] = q[k] /\ k < Len(q) + 1
    OBVIOUS
  <1>3. \A k \in DOMAIN r : k \in DOMAIN q \/ k = Len(q) + 1
    BY <1>1
  <1>4. Len(q) + 1 \in DOMAIN r /\ Len(q) + 1 \notin DOMAIN q
    BY <1>1
  <1>. HIDE DEF r
  <1>5. PICK n : n = Len(q) + 1
    OBVIOUS
  <1>6. /\ r[n] = t /\ n \in DOMAIN r
        /\ \A k \in DOMAIN r : k \in DOMAIN q \/ k = n
        /\ \A k \in DOMAIN q : k \in DOMAIN r /\ r[k] = q[k] /\ k < n
    BY <1>1, <1>2, <1>3, <1>4, <1>5
  <1>7. \A kinds, i : Has(r, kinds, i) <=> Has(q, kinds, i) \/ Matches(t, kinds, i)
    BY <1>6, ZenonT(40) DEF Has
  <1>8. \A kinds, i : Once(q, kinds, i) /\ ~(Has(q, kinds, i) /\ Matches(t, kinds, i)) => Once(r, kinds, i)
    BY <1>6, ZenonT(40) DEF Has, Once
  <1>9. \A kinds, i, u : Owned(q, kinds, i, u) /\ (Matches(t, kinds, i) => t.ue = u) => Owned(r, kinds, i, u)
    BY <1>6, ZenonT(40) DEF Owned
  <1>10. \A i, kind, u : Expected(q, i, kind, u) /\ (t.ue_index = i => t = Task(kind, i, u)) => Expected(r, i, kind, u)
    BY <1>6, ZenonT(40) DEF Expected
  <1>11. \A i : Covered(q, i) /\ ~Matches(t, {"rlf"}, i) => Covered(r, i)
    BY <1>6, ZenonT(40) DEF Covered
  <1>12. ASSUME NEW i, Matches(t, {"resume"}, i)
         PROVE  Covered(r, i)
    <2>1. ~Matches(t, {"rlf"}, i)
      BY <1>12 DEF Matches
    <2>. QED  BY <1>6, <1>12, <2>1, ZenonT(40) DEF Covered
  <1>13. ASSUME NEW u, Served(q, u), ~HasRemoval(q), t.ue = u, t.kind \in Removals \union {"setup"}
         PROVE  Served(r, u)
    <2>1. n = Len(r)
      BY <1>1, <1>5
    <2>. QED  BY <1>6, <1>13, <2>1, ZenonT(40) DEF Served, HasRemoval
  <1>14. HasRemoval(r) => HasRemoval(q) \/ t.kind \in Removals
    BY <1>6, ZenonT(40) DEF HasRemoval
  <1>. QED  BY <1>1, <1>7, <1>8, <1>9, <1>10, <1>11, <1>12, <1>13, <1>14 DEF r

\* What the removal of the first task changes.
LEMMA TailFacts ==
    ASSUME NEW q \in Seq(Tasks), q # <<>>
    PROVE  /\ Tail(q) \in Seq(Tasks) /\ Head(q) \in Tasks
           /\ \A kinds, i : Has(q, kinds, i) <=> Has(Tail(q), kinds, i) \/ Matches(Head(q), kinds, i)
           /\ \A kinds, i : Once(q, kinds, i) => Once(Tail(q), kinds, i)
           /\ \A kinds, i : Once(q, kinds, i) /\ Matches(Head(q), kinds, i) => ~Has(Tail(q), kinds, i)
           /\ \A kinds, i, u : Owned(q, kinds, i, u) => Owned(Tail(q), kinds, i, u)
           /\ \A kinds, i, u : Owned(q, kinds, i, u) /\ Matches(Head(q), kinds, i) => Head(q).ue = u
           /\ \A i, kind, u : Expected(q, i, kind, u) => Expected(Tail(q), i, kind, u)
           /\ \A i, kind, u : Expected(q, i, kind, u) /\ Head(q).ue_index = i => Head(q) = Task(kind, i, u)
           /\ \A i : Covered(q, i) => Covered(Tail(q), i)
           /\ \A i : Covered(q, i) /\ Once(q, {"resume"}, i) /\ Matches(Head(q), {"resume"}, i) => ~Has(q, {"rlf"}, i)
           /\ \A u : Served(q, u) =>
                /\ Served(Tail(q), u) /\ Head(q).ue = u /\ Head(q).kind \in Removals \union {"setup"}
                /\ Head(q).kind \in Removals => Tail(q) = <<>>
           /\ HasRemoval(q) <=> HasRemoval(Tail(q)) \/ Head(q).kind \in Removals
  <1>. DEFINE r == Tail(q)
  <1>1. /\ r \in Seq(Tasks) /\ Len(q) \in Nat /\ Len(q) >= 1 /\ Len(r) = Len(q) - 1 /\ DOMAIN q = 1 .. Len(q)
        /\ DOMAIN r = 1 .. Len(q) - 1 /\ Head(q) = q[1] /\ 1 \in DOMAIN q
    OBVIOUS
  <1>2. \A k \in DOMAIN r : k \in Int /\ k + 1 \in DOMAIN q /\ r[k] = q[k + 1] /\ k + 1 # 1
    OBVIOUS
  <1>3. \A k \in DOMAIN q : k = 1 \/ (k \in Int /\ k - 1 \in DOMAIN r /\ k = (k - 1) + 1)
    BY <1>1
  <1>4. Head(q) \in Tasks
    OBVIOUS
  <1>. HIDE DEF r
  <1>5. ASSUME NEW kinds, NEW i
        PROVE  Has(q, kinds, i) <=> Has(r, kinds, i) \/ Matches(Head(q), kinds, i)
    BY <1>1, <1>2, <1>3, ZenonT(40) DEF Has
  <1>6. ASSUME NEW kinds, NEW i, Once(q, kinds, i)
        PROVE  Once(r, kinds, i)
    <2>1. ASSUME NEW k \in DOMAIN r, NEW m \in DOMAIN r, k + 1 = m + 1
          PROVE  k = m
      BY <1>2, <2>1
    <2>. QED  BY <1>2, <1>6, <2>1, ZenonT(40) DEF Once
  <1>7. ASSUME NEW kinds, NEW i, Once(q, kinds, i), Matches(Head(q), kinds, i)
        PROVE  ~Has(r, kinds, i)
    BY <1>1, <1>2, <1>7, ZenonT(40) DEF Once, Has
  <1>8. \A kinds, i, u : /\ Owned(q, kinds, i, u) => Owned(r, kinds, i, u)
                         /\ Owned(q, kinds, i, u) /\ Matches(Head(q), kinds, i) => Head(q).ue = u
    BY <1>1, <1>2, ZenonT(40) DEF Owned
  <1>9. \A i, kind, u : /\ Expected(q, i, kind, u) => Expected(r, i, kind, u)
                        /\ Expected(q, i, kind, u) /\ Head(q).ue_index = i => Head(q) = Task(kind, i, u)
    BY <1>1, <1>2, ZenonT(40) DEF Expected
  <1>10. ASSUME NEW i, Covered(q, i), NEW k \in DOMAIN q, Matches(q[k], {"rlf"}, i)
         PROVE  \E m \in DOMAIN r : k < m + 1 /\ Matches(r[m], {"resume"}, i)
    <2>1. PICK m \in DOMAIN q : k < m /\ Matches(q[m], {"resume"}, i)
      BY <1>10, ZenonT(40) DEF Covered
    <2>2. m # 1
      BY <1>1, <2>1
    <2>3. m - 1 \in DOMAIN r /\ (m - 1) + 1 = m
      BY <1>1, <2>2
    <2>. QED  BY <1>2, <2>1, <2>3, ZenonT(40)
  <1>11. ASSUME NEW i, Covered(q, i)
         PROVE  Covered(r, i)
    <2>1. ASSUME NEW k \in DOMAIN r, Matches(r[k], {"rlf"}, i)
          PROVE  \E m \in DOMAIN r : k < m /\ Matches(r[m], {"resume"}, i)
      <3>1. k + 1 \in DOMAIN q /\ Matches(q[k + 1], {"rlf"}, i)
        BY <1>2, <2>1, ZenonT(40)
      <3>2. PICK m \in DOMAIN r : k + 1 < m + 1 /\ Matches(r[m], {"resume"}, i)
        BY <1>10, <1>11, <3>1, ZenonT(40)
      <3>3. k < m
        BY <1>1, <3>2
      <3>. QED  BY <3>2, <3>3
    <2>. QED  BY <2>1, ZenonT(40) DEF Covered
  <1>12. ASSUME NEW i, Covered(q, i), Once(q, {"resume"}, i), Matches(Head(q), {"resume"}, i)
         PROVE  ~Has(q, {"rlf"}, i)
    <2>1. ~Has(r, {"resume"}, i)
      BY <1>7, <1>12
    <2>. QED  BY <1>10, <1>12, <2>1, ZenonT(40) DEF Has
  <1>13. ASSUME NEW u, Served(q, u)
         PROVE  /\ Served(r, u) /\ Head(q).ue = u /\ Head(q).kind \in Removals \union {"setup"}
                /\ Head(q).kind \in Removals => r = <<>>
    <2>1. ASSUME NEW k \in DOMAIN r, k + 1 = Len(q)
          PROVE  k = Len(r)
      BY <1>1, <2>1
    <2>2. Len(q) = 1 => r = <<>>
      BY <1>1
    <2>3. \A k \in DOMAIN q : /\ q[k].ue = u /\ q[k].kind \in Removals \union {"setup"}
                              /\ q[k].kind \in Removals => k = Len(q)
      BY <1>13 DEF Served
    <2>4. Head(q).ue = u /\ Head(q).kind \in Removals \union {"setup"} /\ (Head(q).kind \in Removals => 1 = Len(q))
      BY <1>1, <2>3, ZenonT(40)
    <2>5. Served(r, u)
      BY <1>2, <2>1, <2>3, ZenonT(40) DEF Served
    <2>. QED  BY <2>2, <2>4, <2>5
  <1>14. HasRemoval(q) <=> HasRemoval(r) \/ Head(q).kind \in Removals
    BY <1>1, <1>2, <1>3, ZenonT(40) DEF HasRemoval
  <1>. QED  BY <1>1, <1>4, <1>5, <1>6, <1>7, <1>8, <1>9, <1>11, <1>12, <1>13, <1>14 DEF r

\* The steps of a queue that do not concern index j.
QueueStep(q, r, j) ==
    \/ r = q
    \/ \E t \in Tasks : t.ue_index # j /\ r = Append(q, t)
    \/ q # <<>> /\ Head(q).ue_index # j /\ r = Tail(q)

\* A queue that got tasks of other indexes only, or lost some, is the same to
\* index i.
LEMMA QueueFrame ==
    ASSUME NEW q \in Seq(Tasks), NEW r, NEW j, QueueStep(q, r, j)
    PROVE  /\ \A kinds : Has(r, kinds, j) <=> Has(q, kinds, j)
           /\ \A kinds : Once(q, kinds, j) => Once(r, kinds, j)
           /\ \A kinds, u : Owned(q, kinds, j, u) => Owned(r, kinds, j, u)
           /\ \A kind, u : Expected(q, j, kind, u) => Expected(r, j, kind, u)
           /\ Covered(q, j) => Covered(r, j)
  <1>1. CASE r = q
    BY <1>1
  <1>2. ASSUME NEW t \in Tasks, t.ue_index # j, r = Append(q, t)
        PROVE  /\ \A kinds : Has(r, kinds, j) <=> Has(q, kinds, j)
               /\ \A kinds : Once(q, kinds, j) => Once(r, kinds, j)
               /\ \A kinds, u : Owned(q, kinds, j, u) => Owned(r, kinds, j, u)
               /\ \A kind, u : Expected(q, j, kind, u) => Expected(r, j, kind, u)
               /\ Covered(q, j) => Covered(r, j)
    <2>1. \A kinds : ~Matches(t, kinds, j)
      BY <1>2 DEF Matches
    <2>. QED  BY <1>2, <2>1, AppendFacts, ZenonT(40)
  <1>3. CASE q # <<>> /\ Head(q).ue_index # j /\ r = Tail(q)
    <2>1. \A kinds : ~Matches(Head(q), kinds, j)
      BY <1>3 DEF Matches
    <2>. QED  BY <1>3, <2>1, TailFacts, ZenonT(40)
  <1>. QED  BY <1>1, <1>2, <1>3 DEF QueueStep

-----------------------------------------------------------------------------
(* Procedures *)

\* The sequence of an element and the elements of another sequence.
LEMMA ConsFacts ==
    ASSUME NEW S, NEW a \in S, NEW s \in Seq(S), NEW r \in Seq(S),
           Len(r) = Len(s) + 1, r[1] = a, \A k \in 1..Len(s) : r[k + 1] = s[k]
    PROVE  <<a>> \o s = r
  <1>1. <<a>> \in Seq(S) /\ Len(<<a>>) = 1 /\ <<a>>[1] = a
    OBVIOUS
  <1>2. <<a>> \o s \in Seq(S)
    BY <1>1
  <1>3. Len(<<a>> \o s) = Len(r)
    BY <1>1
  <1>4. ASSUME NEW k \in 1..Len(r)
        PROVE  (<<a>> \o s)[k] = r[k]
    <2>1. CASE k = 1
      BY <1>1, <2>1
    <2>2. CASE k # 1
      <3>1. (<<a>> \o s)[k] = s[k - 1]
        BY <1>1, <2>2
      <3>2. k - 1 \in 1..Len(s) /\ (k - 1) + 1 = k
        BY <2>2
      <3>. QED  BY <3>1, <3>2
    <2>. QED  BY <2>1, <2>2
  <1>. QED  BY <1>1, <1>2, <1>3, <1>4

\* The concatenation of two sequences.
LEMMA ConcatFacts ==
    ASSUME NEW S, NEW s \in Seq(S), NEW t \in Seq(S), NEW r \in Seq(S), Len(r) = Len(s) + Len(t),
           \A k \in 1..Len(s) : r[k] = s[k], \A k \in 1..Len(t) : r[Len(s) + k] = t[k]
    PROVE  s \o t = r
  <1>1. s \o t \in Seq(S) /\ Len(s \o t) = Len(r)
    OBVIOUS
  <1>2. ASSUME NEW k \in 1..Len(r)
        PROVE  (s \o t)[k] = r[k]
    <2>1. CASE k <= Len(s)
      BY <2>1
    <2>2. CASE k > Len(s)
      <3>1. (s \o t)[k] = t[k - Len(s)]
        BY <2>2
      <3>2. k - Len(s) \in 1..Len(t) /\ Len(s) + (k - Len(s)) = k
        BY <2>2
      <3>. QED  BY <3>1, <3>2
    <2>. QED  BY <2>1, <2>2
  <1>. QED  BY <1>1, <1>2

\* What comes first, what is left after it, and what a part done elsewhere makes of
\* the parts.
LEMMA StageFacts ==
    /\ C0 # <<>> /\ Head(C0) = "ul" /\ <<"resume">> \o Tail(C0) = C0r
    /\ C0r # <<>> /\ Head(C0r) = "resume" /\ Tail(C0r) = C1
    /\ C1 # <<>> /\ Head(C1) = "dl" /\ <<"resume">> \o Tail(C1) = C1r
    /\ C1r # <<>> /\ Head(C1r) = "resume" /\ Tail(C1r) = C2
    /\ C2 # <<>> /\ Head(C2) = "sched" /\ Tail(C2) = <<>>
    /\ W0 # <<>> /\ Head(W0) = "wait" /\ Tail(W0) = D0
    /\ D0 # <<>> /\ Head(D0) = "ue" /\ <<"resume">> \o Tail(D0) = D0r
    /\ D0r # <<>> /\ Head(D0r) = "resume" /\ Tail(D0r) = D1
    /\ D1 # <<>> /\ Head(D1) = "sched" /\ Tail(D1) = D2
    /\ D2 # <<>> /\ Head(D2) = "dl" /\ <<"resume">> \o Tail(D2) = D2r
    /\ D2r # <<>> /\ Head(D2r) = "resume" /\ Tail(D2r) = D3
    /\ D3 # <<>> /\ Head(D3) = "ul" /\ <<"resume">> \o Tail(D3) = D3r
    /\ D3r # <<>> /\ Head(D3r) = "resume" /\ Tail(D3r) = <<>>
    /\ Parts("create") = {C0} /\ Parts("delete") = {D0} /\ Parts("release") = {W0}
    /\ C0r # C1r /\ D0r # D2r /\ D0r # D3r /\ D2r # D3r /\ D2r # C0r /\ D2r # C1r
  <1>. USE DEF C0, C0r, C1, C1r, C2, W0, D0, D0r, D1, D2, D2r, D3, D3r
  <1>. DEFINE PartNames == {"wait", "ue", "ul", "dl", "sched", "resume"}
  <1>a. Tail(C0) = C1 /\ Tail(C1) = C2 /\ Tail(D2) = D3
    OBVIOUS
  <1>b. Tail(D0) = D1
    OBVIOUS
  <1>c. <<"resume">> \o C1 = C0r
    <2>1. "resume" \in PartNames /\ C1 \in Seq(PartNames) /\ C0r \in Seq(PartNames)
      OBVIOUS
    <2>2. Len(C1) = 2 /\ Len(C0r) = 3 /\ C0r[1] = "resume" /\ C0r[2] = C1[1] /\ C0r[3] = C1[2]
      OBVIOUS
    <2>. HIDE DEF C1, C0r, PartNames
    <2>4. Len(C0r) = Len(C1) + 1
      BY <2>2
    <2>3. \A k \in 1..Len(C1) : C0r[k + 1] = C1[k]
      <3>1. \A k \in 1..2 : (k = 1 /\ k + 1 = 2) \/ (k = 2 /\ k + 1 = 3)
        OBVIOUS
      <3>. QED  BY <2>2, <3>1
    <2>. QED  BY <2>1, <2>2, <2>3, <2>4, ConsFacts
  <1>d. <<"resume">> \o C2 = C1r
    <2>1. "resume" \in PartNames /\ C2 \in Seq(PartNames) /\ C1r \in Seq(PartNames)
      OBVIOUS
    <2>2. Len(C2) = 1 /\ Len(C1r) = 2 /\ C1r[1] = "resume" /\ C1r[2] = C2[1]
      OBVIOUS
    <2>. HIDE DEF C2, C1r, PartNames
    <2>4. Len(C1r) = Len(C2) + 1
      BY <2>2
    <2>3. \A k \in 1..Len(C2) : C1r[k + 1] = C2[k]
      <3>1. \A k \in 1..1 : (k = 1 /\ k + 1 = 2)
        OBVIOUS
      <3>. QED  BY <2>2, <3>1
    <2>. QED  BY <2>1, <2>2, <2>3, <2>4, ConsFacts
  <1>e. <<"resume">> \o D3 = D2r
    <2>1. "resume" \in PartNames /\ D3 \in Seq(PartNames) /\ D2r \in Seq(PartNames)
      OBVIOUS
    <2>2. Len(D3) = 1 /\ Len(D2r) = 2 /\ D2r[1] = "resume" /\ D2r[2] = D3[1]
      OBVIOUS
    <2>. HIDE DEF D3, D2r, PartNames
    <2>4. Len(D2r) = Len(D3) + 1
      BY <2>2
    <2>3. \A k \in 1..Len(D3) : D2r[k + 1] = D3[k]
      <3>1. \A k \in 1..1 : (k = 1 /\ k + 1 = 2)
        OBVIOUS
      <3>. QED  BY <2>2, <3>1
    <2>. QED  BY <2>1, <2>2, <2>3, <2>4, ConsFacts
  <1>f. <<"resume">> \o D1 = D0r
    <2>1. "resume" \in PartNames /\ D1 \in Seq(PartNames) /\ D0r \in Seq(PartNames)
      OBVIOUS
    <2>2. Len(D1) = 3 /\ Len(D0r) = 4 /\ D0r[1] = "resume" /\ D0r[2] = D1[1] /\ D0r[3] = D1[2] /\ D0r[4] = D1[3]
      OBVIOUS
    <2>. HIDE DEF D1, D0r, PartNames
    <2>4. Len(D0r) = Len(D1) + 1
      BY <2>2
    <2>3. \A k \in 1..Len(D1) : D0r[k + 1] = D1[k]
      <3>1. \A k \in 1..3 : (k = 1 /\ k + 1 = 2) \/ (k = 2 /\ k + 1 = 3) \/ (k = 3 /\ k + 1 = 4)
        OBVIOUS
      <3>. QED  BY <2>2, <3>1
    <2>. QED  BY <2>1, <2>2, <2>3, <2>4, ConsFacts
  <1>1. /\ C0 # <<>> /\ Head(C0) = "ul" /\ <<"resume">> \o Tail(C0) = C0r
        /\ C0r # <<>> /\ Head(C0r) = "resume" /\ Tail(C0r) = C1
    BY <1>a, <1>c
  <1>2. /\ C1 # <<>> /\ Head(C1) = "dl" /\ <<"resume">> \o Tail(C1) = C1r
        /\ C1r # <<>> /\ Head(C1r) = "resume" /\ Tail(C1r) = C2
        /\ C2 # <<>> /\ Head(C2) = "sched" /\ Tail(C2) = <<>>
    BY <1>a, <1>d
  <1>3. /\ W0 # <<>> /\ Head(W0) = "wait" /\ Tail(W0) = D0
        /\ D0 # <<>> /\ Head(D0) = "ue" /\ <<"resume">> \o Tail(D0) = D0r
    BY <1>b, <1>f
  <1>4. /\ D0r # <<>> /\ Head(D0r) = "resume" /\ Tail(D0r) = D1
        /\ D1 # <<>> /\ Head(D1) = "sched" /\ Tail(D1) = D2
    OBVIOUS
  <1>5. /\ D2 # <<>> /\ Head(D2) = "dl" /\ <<"resume">> \o Tail(D2) = D2r
        /\ D2r # <<>> /\ Head(D2r) = "resume" /\ Tail(D2r) = D3
    BY <1>a, <1>e
  <1>6. /\ D3 # <<>> /\ Head(D3) = "ul" /\ <<"resume">> \o Tail(D3) = D3r
        /\ D3r # <<>> /\ Head(D3r) = "resume" /\ Tail(D3r) = <<>>
    OBVIOUS
  <1>7. Parts("create") = {C0} /\ Parts("delete") = {D0} /\ Parts("release") = {W0}
    BY DEF Parts
  <1>8. C0r # C1r /\ D0r # D2r /\ D0r # D3r /\ D2r # D3r /\ D2r # C0r /\ D2r # C1r
    OBVIOUS
  <1>. QED  BY <1>1, <1>2, <1>3, <1>4, <1>5, <1>6, <1>7, <1>8

\* The same of the parts of a reconfiguration, with and without bearers to add and
\* to remove.
LEMMA SetupFacts ==
    /\ S0 # <<>> /\ Head(S0) = "ul" /\ <<"resume">> \o Tail(S0) = S0r
    /\ S0r # <<>> /\ Head(S0r) = "resume" /\ Tail(S0r) = S1
    /\ S1 # <<>> /\ Head(S1) = "dl" /\ <<"resume">> \o Tail(S1) = S1r
    /\ S1r # <<>> /\ Head(S1r) = "resume" /\ Tail(S1r) = S2
    /\ S2 # <<>> /\ Head(S2) = "sched" /\ Tail(S2) = S3
    /\ S3 # <<>> /\ Head(S3) = "ul" /\ <<"resume">> \o Tail(S3) = S3r
    /\ S3r # <<>> /\ Head(S3r) = "resume" /\ Tail(S3r) = S4
    /\ S4 # <<>> /\ Head(S4) = "dl" /\ <<"resume">> \o Tail(S4) = D3r
    /\ Parts("setup") = {C0, S0, C2, S2}
    /\ D2r \notin SetupStages
  <1>. USE DEF C0, C0r, C1, C1r, C2, D2r, D3r, S0, S0r, S1, S1r, S2, S3, S3r, S4
  <1>. DEFINE PartNames == {"wait", "ue", "ul", "dl", "sched", "resume"}
  <1>a. <<"resume">> \o S1 = S0r
    <2>1. "resume" \in PartNames /\ S1 \in Seq(PartNames) /\ S0r \in Seq(PartNames)
      OBVIOUS
    <2>2. /\ Len(S1) = 4 /\ Len(S0r) = 5 /\ S0r[1] = "resume"
          /\ S0r[2] = S1[1] /\ S0r[3] = S1[2] /\ S0r[4] = S1[3] /\ S0r[5] = S1[4]
      OBVIOUS
    <2>. HIDE DEF S1, S0r, PartNames
    <2>3. Len(S0r) = Len(S1) + 1
      BY <2>2
    <2>4. \A k \in 1..Len(S1) : S0r[k + 1] = S1[k]
      <3>1. \A k \in 1..4 : (k = 1 /\ k + 1 = 2) \/ (k = 2 /\ k + 1 = 3) \/ (k = 3 /\ k + 1 = 4) \/ (k = 4 /\ k + 1 = 5)
        OBVIOUS
      <3>. QED  BY <2>2, <3>1
    <2>. QED  BY <2>1, <2>2, <2>3, <2>4, ConsFacts
  <1>b. <<"resume">> \o S2 = S1r
    <2>1. "resume" \in PartNames /\ S2 \in Seq(PartNames) /\ S1r \in Seq(PartNames)
      OBVIOUS
    <2>2. /\ Len(S2) = 3 /\ Len(S1r) = 4 /\ S1r[1] = "resume"
          /\ S1r[2] = S2[1] /\ S1r[3] = S2[2] /\ S1r[4] = S2[3]
      OBVIOUS
    <2>. HIDE DEF S2, S1r, PartNames
    <2>3. Len(S1r) = Len(S2) + 1
      BY <2>2
    <2>4. \A k \in 1..Len(S2) : S1r[k + 1] = S2[k]
      <3>1. \A k \in 1..3 : (k = 1 /\ k + 1 = 2) \/ (k = 2 /\ k + 1 = 3) \/ (k = 3 /\ k + 1 = 4)
        OBVIOUS
      <3>. QED  BY <2>2, <3>1
    <2>. QED  BY <2>1, <2>2, <2>3, <2>4, ConsFacts
  <1>c. <<"resume">> \o S4 = S3r
    <2>1. "resume" \in PartNames /\ S4 \in Seq(PartNames) /\ S3r \in Seq(PartNames)
      OBVIOUS
    <2>2. /\ Len(S4) = 1 /\ Len(S3r) = 2 /\ S3r[1] = "resume"
          /\ S3r[2] = S4[1]
      OBVIOUS
    <2>. HIDE DEF S4, S3r, PartNames
    <2>3. Len(S3r) = Len(S4) + 1
      BY <2>2
    <2>4. \A k \in 1..Len(S4) : S3r[k + 1] = S4[k]
      <3>1. \A k \in 1..1 : (k = 1 /\ k + 1 = 2)
        OBVIOUS
      <3>. QED  BY <2>2, <3>1
    <2>. QED  BY <2>1, <2>2, <2>3, <2>4, ConsFacts
  <1>1. /\ S0 # <<>> /\ Head(S0) = "ul" /\ <<"resume">> \o Tail(S0) = S0r
        /\ S0r # <<>> /\ Head(S0r) = "resume" /\ Tail(S0r) = S1
    <2>1. Tail(S0) = S1
      OBVIOUS
    <2>. QED  BY <1>a, <2>1
  <1>2. /\ S1 # <<>> /\ Head(S1) = "dl" /\ <<"resume">> \o Tail(S1) = S1r
        /\ S1r # <<>> /\ Head(S1r) = "resume" /\ Tail(S1r) = S2
    <2>1. Tail(S1) = S2
      OBVIOUS
    <2>. QED  BY <1>b, <2>1
  <1>3. /\ S2 # <<>> /\ Head(S2) = "sched" /\ Tail(S2) = S3
        /\ S3 # <<>> /\ Head(S3) = "ul" /\ Tail(S3) = S4
        /\ S3r # <<>> /\ Head(S3r) = "resume" /\ Tail(S3r) = S4
    OBVIOUS
  <1>4. S4 # <<>> /\ Head(S4) = "dl" /\ <<"resume">> \o Tail(S4) = D3r
    OBVIOUS
  <1>5. D2r \notin SetupStages
    BY DEF SetupStages
  <1>6. Parts("setup") = {C0, S0, C2, S2}
    <2>1. <<>> \o <<"sched">> = C2 /\ C2 \o <<>> = C2
      OBVIOUS
    <2>2. C0 \o <<>> = C0
      OBVIOUS
    <2>3. S3 \o C2 = C0
      <3>1. S3 \in Seq(PartNames) /\ C2 \in Seq(PartNames) /\ C0 \in Seq(PartNames)
        OBVIOUS
      <3>2. /\ Len(S3) = 2 /\ Len(C2) = 1 /\ Len(C0) = 3
            /\ C0[1] = S3[1] /\ C0[2] = S3[2]
            /\ C0[3] = C2[1]
        OBVIOUS
      <3>. HIDE DEF S3, C2, C0, PartNames
      <3>3. Len(C0) = Len(S3) + Len(C2)
        BY <3>2
      <3>4. \A k \in 1..Len(S3) : C0[k] = S3[k]
        <4>1. \A k \in 1..2 : k = 1 \/ k = 2
          OBVIOUS
        <4>. QED  BY <3>2, <4>1
      <3>5. \A k \in 1..Len(C2) : C0[Len(S3) + k] = C2[k]
        <4>1. \A k \in 1..1 : (k = 1 /\ 2 + k = 3)
          OBVIOUS
        <4>. QED  BY <3>2, <4>1
      <3>. QED  BY <3>1, <3>3, <3>4, <3>5, ConcatFacts
    <2>4. C2 \o S3 = S2
      <3>1. C2 \in Seq(PartNames) /\ S3 \in Seq(PartNames) /\ S2 \in Seq(PartNames)
        OBVIOUS
      <3>2. /\ Len(C2) = 1 /\ Len(S3) = 2 /\ Len(S2) = 3
            /\ S2[1] = C2[1]
            /\ S2[2] = S3[1] /\ S2[3] = S3[2]
        OBVIOUS
      <3>. HIDE DEF C2, S3, S2, PartNames
      <3>3. Len(S2) = Len(C2) + Len(S3)
        BY <3>2
      <3>4. \A k \in 1..Len(C2) : S2[k] = C2[k]
        <4>1. \A k \in 1..1 : k = 1
          OBVIOUS
        <4>. QED  BY <3>2, <4>1
      <3>5. \A k \in 1..Len(S3) : S2[Len(C2) + k] = S3[k]
        <4>1. \A k \in 1..2 : (k = 1 /\ 1 + k = 2) \/ (k = 2 /\ 1 + k = 3)
          OBVIOUS
        <4>. QED  BY <3>2, <4>1
      <3>. QED  BY <3>1, <3>3, <3>4, <3>5, ConcatFacts
    <2>5. C0 \o S3 = S0
      <3>1. C0 \in Seq(PartNames) /\ S3 \in Seq(PartNames) /\ S0 \in Seq(PartNames)
        OBVIOUS
      <3>2. /\ Len(C0) = 3 /\ Len(S3) = 2 /\ Len(S0) = 5
            /\ S0[1] = C0[1] /\ S0[2] = C0[2] /\ S0[3] = C0[3]
            /\ S0[4] = S3[1] /\ S0[5] = S3[2]
        OBVIOUS
      <3>. HIDE DEF C0, S3, S0, PartNames
      <3>3. Len(S0) = Len(C0) + Len(S3)
        BY <3>2
      <3>4. \A k \in 1..Len(C0) : S0[k] = C0[k]
        <4>1. \A k \in 1..3 : k = 1 \/ k = 2 \/ k = 3
          OBVIOUS
        <4>. QED  BY <3>2, <4>1
      <3>5. \A k \in 1..Len(S3) : S0[Len(C0) + k] = S3[k]
        <4>1. \A k \in 1..2 : (k = 1 /\ 3 + k = 4) \/ (k = 2 /\ 3 + k = 5)
          OBVIOUS
        <4>. QED  BY <3>2, <4>1
      <3>. QED  BY <3>1, <3>3, <3>4, <3>5, ConcatFacts
    <2>. QED  BY <2>1, <2>2, <2>3, <2>4, <2>5 DEF Parts, SetupParts
  <1>. QED  BY <1>1, <1>2, <1>3, <1>4, <1>5, <1>6, <1>c

\* A step that leaves index j alone.
Untouched(j) ==
    /\ du_db'[j] = du_db[j] /\ f1ap_ues'[j] = f1ap_ues[j] /\ mac_ctrl'[j] = mac_ctrl[j] /\ mac_ul'[j] = mac_ul[j]
    /\ mac_dl'[j] = mac_dl[j] /\ sched'[j] = sched[j] /\ proc'[j] = proc[j] /\ tasks'[j] = tasks[j]
    /\ ready'[j] = ready[j] /\ notifier'[j] = notifier[j]
    /\ (j \in ues_to_rem' <=> j \in ues_to_rem) /\ (erasing' = j <=> erasing = j)
    /\ QueueStep(sched_events, sched_events', j) /\ QueueStep(ctrl_queue, ctrl_queue', j)
    /\ du_db[j] # None /\ du_db[j] \notin known => du_db[j] \notin known'
    /\ du_db[j] # None /\ triggers[du_db[j]] > 0 => triggers'[du_db[j]] > 0

\* What is true of an index stays true when the index is left alone.
LEMMA IndexFrame ==
    ASSUME NEW j \in Indexes, IndexInv(j), sched_events \in Seq(Tasks), ctrl_queue \in Seq(Tasks), Untouched(j)
    PROVE  IndexInv(j)'
  <1>. USE DEF Untouched
  <1>1. /\ \A kinds : Has(sched_events', kinds, j) <=> Has(sched_events, kinds, j)
        /\ \A kinds : Once(sched_events, kinds, j) => Once(sched_events', kinds, j)
        /\ \A kind, u : Expected(sched_events, j, kind, u) => Expected(sched_events', j, kind, u)
    BY QueueFrame
  <1>2. /\ \A kinds : Has(ctrl_queue', kinds, j) <=> Has(ctrl_queue, kinds, j)
        /\ \A kinds : Once(ctrl_queue, kinds, j) => Once(ctrl_queue', kinds, j)
        /\ \A kinds, u : Owned(ctrl_queue, kinds, j, u) => Owned(ctrl_queue', kinds, j, u)
        /\ Covered(ctrl_queue, j) => Covered(ctrl_queue', j)
    BY QueueFrame
  <1>3. (EventDue(j)' <=> EventDue(j)) /\ (ReadyDue(j)' <=> ReadyDue(j))
    BY <1>1, <1>2, ZenonT(40) DEF EventDue, ReadyDue
  <1>4. \A part : At(j, part)' <=> At(j, part)
    BY DEF At
  <1>5. \A a, b, c, d : Contexts(j, a, b, c, d)' <=> Contexts(j, a, b, c, d)
    BY DEF Contexts
  <1>6. ProcInv(j)'
    <2>1. CASE Idling(j)
      BY <1>5, <2>1 DEF ProcInv, Idling
    <2>2. CASE Creating(j)
      <3>1. Creating(j)'
        BY <1>3, <2>2 DEF Creating, Contexts
      <3>. QED  BY <3>1 DEF ProcInv
    <2>3. CASE SettingUp(j)
      BY <1>5, <2>3 DEF ProcInv, SettingUp
    <2>4. CASE Removing(j)
      <3>1. Removing(j)'
        BY <1>3, <2>4 DEF Removing, Contexts
      <3>. QED  BY <3>1 DEF ProcInv
    <2>. QED  BY <2>1, <2>2, <2>3, <2>4 DEF IndexInv, ProcInv
  <1>7. TasksInv(j)'
    BY DEF IndexInv, TasksInv
  <1>8. ResponseInv(j)'
    BY <1>1, <1>2, <1>3, <1>4, ZenonT(40) DEF IndexInv, ResponseInv
  <1>9. ResumeInv(j)'
    BY <1>2, <1>4, ZenonT(40) DEF IndexInv, ResumeInv
  <1>10. NotifierInv(j)'
    BY <1>2, ZenonT(40) DEF IndexInv, NotifierInv
  <1>. QED  BY <1>6, <1>7, <1>8, <1>9, <1>10 DEF IndexInv

\* A step is about one index; the rest of the invariant is about all of them.
LEMMA OneIndex ==
    ASSUME DuInv, DuTypeOK', DuAssertionsHold', UesDistinct', PhyInv',
           NEW i \in Indexes, IndexInv(i)', \A j \in Indexes \ {i} : Untouched(j)
    PROVE  DuInv'
  <1>1. \A j \in Indexes \ {i} : IndexInv(j)'
    BY IndexFrame DEF DuInv, DuTypeOK
  <1>. QED  BY <1>1 DEF DuInv

\* An index without procedure, and so without events of the scheduler, expects
\* none of any UE.
LEMMA NoEvents ==
    ASSUME NEW i \in Indexes, NEW q \in Seq(Tasks), NEW u, Expected(q, i, "none", u)
    PROVE  \A kind, v : Expected(q, i, kind, v)
  <1>1. ASSUME NEW k \in DOMAIN q, q[k].ue_index = i
        PROVE  FALSE
    <2>1. q[k] \in Tasks
      OBVIOUS
    <2>2. q[k] = Task("none", i, u)
      BY <1>1, ZenonT(40) DEF Expected
    <2>. QED  BY <2>1, <2>2 DEF Task, Tasks, Procedures
  <1>. QED  BY <1>1, ZenonT(40) DEF Expected

\* Where the contexts of an index are at the parts of its procedure.
LEMMA Where ==
    ASSUME DuUeAssumption, NEW i \in Indexes, ProcInv(i)
    PROVE  LET u == du_db[i]  k == proc[i].kind  p == proc[i].parts  R == k \in Removals /\ tasks[i] = <<>> /\ triggers[u] > 0
               C == k = "create" /\ tasks[i] = <<>> /\ u \notin known  S == k = "setup" IN
           /\ At(i, "ul") => /\ u # None
                             /\ \/ C /\ p = C0 /\ Contexts(i, u, None, None, None)
                                \/ S /\ p \in {C0, S0, S3} /\ Contexts(i, u, u, u, u)
                                \/ R /\ p = D3 /\ Contexts(i, u, u, None, None)
           /\ At(i, "dl") => /\ u # None
                             /\ \/ C /\ p = C1 /\ Contexts(i, u, u, None, None)
                                \/ S /\ p \in {C1, S1, S4} /\ Contexts(i, u, u, u, u)
                                \/ R /\ p = D2 /\ Contexts(i, u, u, u, IF erasing = i THEN u ELSE None)
           /\ At(i, "sched") => /\ u # None
                                /\ \/ C /\ p = C2 /\ Contexts(i, u, u, u, IF EventDue(i) THEN None ELSE u)
                                   \/ S /\ p \in {C2, S2} /\ Contexts(i, u, u, u, u)
                                   \/ /\ R /\ p = D1
                                      /\ Contexts(i, u, u, u, IF EventDue(i) \/ i \in ues_to_rem \/ erasing = i THEN u ELSE None)
           /\ At(i, "ue") => u # None /\ R /\ p = D0 /\ Contexts(i, u, u, u, u)
           /\ At(i, "wait") => u # None /\ R /\ p = W0 /\ Contexts(i, u, u, u, u)
           /\ At(i, "resume") => /\ u # None
                                 /\ \/ C /\ p = C0r /\ Contexts(i, u, u, None, None)
                                    \/ C /\ p = C1r /\ Contexts(i, u, u, u, None)
                                    \/ S /\ p \in {C0r, C1r, S0r, S1r, S3r, D3r} /\ Contexts(i, u, u, u, u)
                                    \/ R /\ p = D0r /\ Contexts(i, u, u, u, u)
                                    \/ R /\ p = D2r /\ Contexts(i, u, u, None, None)
                                    \/ R /\ p = D3r /\ Contexts(i, u, None, None, None)
  <1>1. CASE Idling(i)
    BY <1>1 DEF Idling, At, NoProc
  <1>2. CASE Creating(i)
    BY <1>2, StageFacts DEF Creating, At, Removals
  <1>3. CASE SettingUp(i)
    BY <1>3, StageFacts, SetupFacts DEF SettingUp, At, Removals, SetupStages
  <1>4. CASE Removing(i)
    BY <1>4, StageFacts DEF Removing, At
  <1>. QED  BY <1>1, <1>2, <1>3, <1>4 DEF ProcInv

\* The contexts of an index are nested, and all of the UE in the DU manager.
LEMMA Nested ==
    ASSUME DuUeAssumption, NEW i \in Indexes, ProcInv(i)
    PROVE  /\ sched[i] # None => mac_dl[i] = sched[i]
           /\ mac_dl[i] # None => mac_ul[i] = mac_dl[i]
           /\ mac_ul[i] # None => mac_ctrl[i] = mac_ul[i]
           /\ mac_ctrl[i] # None => f1ap_ues[i] = mac_ctrl[i]
           /\ f1ap_ues[i] # None => du_db[i] = f1ap_ues[i]
  <1>1. CASE Idling(i)
    BY <1>1 DEF Idling, Contexts
  <1>2. CASE Creating(i)
    BY <1>2 DEF Creating, Contexts
  <1>3. CASE SettingUp(i)
    BY <1>3 DEF SettingUp, Contexts
  <1>4. CASE Removing(i)
    BY <1>4 DEF Removing, Contexts
  <1>. QED  BY <1>1, <1>2, <1>3, <1>4 DEF ProcInv

-----------------------------------------------------------------------------
(* The steps of the control thread *)

\* An index without procedure has nothing on its way, and RLF tasks only when it
\* has a UE in the MAC DL.
LEMMA AtRest ==
    ASSUME DuUeAssumption, DuTypeOK, NEW i \in Indexes, IndexInv(i), proc[i] = NoProc
    PROVE  /\ Idling(i)
           /\ \A part : ~At(i, part)
           /\ ~EventDue(i) /\ i \notin ues_to_rem /\ erasing # i /\ ~ReadyDue(i) /\ ~ready[i]
           /\ ~Has(ctrl_queue, {"resume"}, i)
           /\ \A kind, v : Expected(sched_events, i, kind, v)
           /\ mac_dl[i] = None => ~Has(ctrl_queue, {"rlf"}, i)
  <1>1. proc[i].kind = "none" /\ proc[i].parts = <<>>
    BY DEF NoProc
  <1>2. Idling(i)
    <2>1. ~Creating(i) /\ ~SettingUp(i) /\ ~Removing(i)
      BY <1>1 DEF Creating, SettingUp, Removing, Removals
    <2>. QED  BY <2>1 DEF IndexInv, ProcInv
  <1>3. \A part : ~At(i, part)
    BY <1>1 DEF At
  <1>4. ~EventDue(i) /\ i \notin ues_to_rem /\ ~ReadyDue(i) /\ ~ready[i]
    BY <1>3, ZenonT(40) DEF IndexInv, ResponseInv
  <1>5. ~Has(ctrl_queue, {"resume"}, i)
    BY <1>3, ZenonT(40) DEF IndexInv, ResumeInv
  <1>6. \A kind, v : Expected(sched_events, i, kind, v)
    BY <1>1, NoEvents DEF IndexInv, ResponseInv, DuTypeOK
  <1>7. mac_dl[i] = None => ~Has(ctrl_queue, {"rlf"}, i)
    <2>1. D2r # <<>>
      BY StageFacts
    <2>. QED  BY <1>1, <2>1 DEF IndexInv, NotifierInv
  <1>8. erasing # i
    BY <1>1 DEF IndexInv, ResponseInv, Removals
  <1>. QED  BY <1>2, <1>3, <1>4, <1>5, <1>6, <1>7, <1>8

inv_vars == <<du_db, f1ap_ues, mac_ctrl, mac_ul, mac_dl, sched, ues_to_rem, erasing, sched_events, ready, tasks, proc,
              ctrl_queue, created, known, triggers, phy, notifier>>

\* The invariant is about these variables alone, and about what went wrong.
LEMMA StutterKeepsInv ==
    ASSUME DuInv, UNCHANGED inv_vars, DuAssertionsHold'
    PROVE  DuInv'
  <1>1. DuTypeOK' /\ UesDistinct' /\ PhyInv'
    BY DEF DuInv, inv_vars, DuTypeOK, UesDistinct, PhyInv
  <1>2. \A j \in Indexes : Untouched(j)
    BY DEF inv_vars, Untouched, QueueStep
  <1>3. \A j \in Indexes : IndexInv(j)'
    BY <1>2, IndexFrame DEF DuInv, DuTypeOK
  <1>. QED  BY <1>1, <1>3 DEF DuInv

\* handle_ue_create_request: the DU manager takes a free index and queues the
\* creation.
LEMMA TakeIndexKeepsInv ==
    ASSUME DuUeAssumption, DuInv, NEW i \in Indexes, du_db[i] = None, tasks[i] = <<>>, created + 1 \in Ues,
           du_db' = [du_db EXCEPT ![i] = created + 1],
           tasks' = [tasks EXCEPT ![i] = Append(@, Task("create", i, created + 1))],
           created' = created + 1, failed' = None,
           UNCHANGED <<f1ap_ues, mac_ctrl, mac_ul, mac_dl, sched, ues_to_rem, erasing, sched_events, ready,
                       proc, ctrl_queue, known, triggers, phy, notifier>>
    PROVE  DuInv'
  <1>1. /\ du_db[i] = None /\ tasks[i] = <<>>
        /\ du_db' = [du_db EXCEPT ![i] = created + 1]
        /\ tasks' = [tasks EXCEPT ![i] = Append(@, Task("create", i, created + 1))]
    OBVIOUS
  <1>2. PICK u : u = created + 1
    OBVIOUS
  <1>3. DuTypeOK /\ UesDistinct /\ PhyInv /\ IndexInv(i)
    BY DEF DuInv
  <1>4. /\ u \in Ues /\ created' = u /\ created \in Nat /\ failed' = None
        /\ UNCHANGED <<f1ap_ues, mac_ctrl, mac_ul, mac_dl, sched, ues_to_rem, erasing, sched_events, ready,
                       proc, ctrl_queue, known, triggers, phy, notifier>>
    BY <1>2, <1>3 DEF DuTypeOK
  <1>5. /\ u # None /\ u \notin known /\ \A j \in Indexes : du_db[j] # u
    <2>1. ASSUME NEW v, v \in known PROVE v # u
      BY <1>2, <1>3, <1>4, <2>1 DEF UesDistinct
    <2>2. ASSUME NEW j \in Indexes PROVE du_db[j] # u
      <3>1. CASE du_db[j] = None
        BY <1>4, <3>1 DEF DuUeAssumption
      <3>2. CASE du_db[j] # None
        <4>1. du_db[j] \in Nat /\ du_db[j] <= created
          BY <1>3, <3>2, ZenonT(60) DEF UesDistinct, DuTypeOK, DuUeAssumption
        <4>. QED  BY <1>2, <1>4, <4>1
      <3>. QED  BY <3>1, <3>2
    <2>. QED  BY <1>4, <2>1, <2>2 DEF DuUeAssumption
  <1>6. du_db' = [du_db EXCEPT ![i] = u] /\ tasks' = [tasks EXCEPT ![i] = <<Task("create", i, u)>>]
    BY <1>1, <1>2, <1>3 DEF DuTypeOK
  <1>7. Task("create", i, u) \in Tasks
    BY <1>4 DEF Task, Tasks, Procedures
  <1>8. DuTypeOK'
    <2>1. du_db' \in [Indexes -> Ues \union {None}]
      BY <1>3, <1>4, <1>6 DEF DuTypeOK
    <2>2. tasks' \in [Indexes -> Seq(Tasks)]
      <3>1. <<Task("create", i, u)>> \in Seq(Tasks)
        BY <1>7
      <3>2. tasks \in [Indexes -> Seq(Tasks)]
        BY <1>3 DEF DuTypeOK
      <3>. QED  BY <1>6, <3>1, <3>2
    <2>3. created' \in Nat
      BY <1>2, <1>4
    <2>. QED  BY <1>3, <1>4, <2>1, <2>2, <2>3 DEF DuTypeOK
  <1>9. UesDistinct'
    <2>1. \A j \in Indexes : du_db'[j] = IF j = i THEN u ELSE du_db[j]
      BY <1>3, <1>6 DEF DuTypeOK
    <2>2. \A j \in Indexes : du_db'[j] # None => du_db'[j] <= created'
      <3>. SUFFICES ASSUME NEW j \in Indexes, du_db'[j] # None
                    PROVE  du_db'[j] <= created'
        OBVIOUS
      <3>1. CASE j = i
        BY <1>2, <1>4, <2>1, <3>1
      <3>2. CASE j # i
        <4>1. du_db'[j] = du_db[j] /\ du_db[j] # None
          BY <2>1, <3>2
        <4>2. du_db[j] \in Nat /\ du_db[j] <= created
          BY <1>3, <4>1 DEF UesDistinct, DuTypeOK, DuUeAssumption
        <4>. QED  BY <1>2, <1>4, <4>1, <4>2
      <3>. QED  BY <3>1, <3>2
    <2>3. \A j, m \in Indexes : du_db'[j] # None /\ du_db'[j] = du_db'[m] => j = m
      BY <1>3, <1>5, <2>1 DEF UesDistinct
    <2>4. \A v \in known' : v <= created'
      <3>1. \A v \in known : v \in Nat /\ v <= created
        BY <1>3 DEF UesDistinct, DuTypeOK, DuUeAssumption
      <3>. QED  BY <1>2, <1>4, <3>1
    <2>. QED  BY <2>2, <2>3, <2>4 DEF UesDistinct
  <1>10. PhyInv'
    BY <1>3, <1>4 DEF PhyInv
  <1>11. \A j \in Indexes \ {i} : Untouched(j)
    BY <1>3, <1>4, <1>6 DEF Untouched, QueueStep, DuTypeOK
  <1>12. IndexInv(i)'
    <2>1. proc[i] = NoProc
      <3>1. tasks[i] # <<Task("create", i, du_db[i])>> /\ tasks[i] # <<Task("erase", i, du_db[i])>>
        BY <1>1
      <3>. QED  BY <1>1, <1>3, <3>1 DEF IndexInv, TasksInv
    <2>2. du_db'[i] = u /\ tasks'[i] = <<Task("create", i, u)>>
      BY <1>3, <1>6 DEF DuTypeOK
    <2>3. Contexts(i, None, None, None, None) /\ mac_dl[i] = None /\ f1ap_ues[i] = None
      BY <1>1, <1>3, <2>1, AtRest DEF Idling, Contexts
    <2>4. ProcInv(i)'
      BY <1>4, <2>1, <2>3 DEF ProcInv, Idling, Contexts
    <2>5. TasksInv(i)'
      BY <1>4, <1>5, <2>1, <2>2, <2>3 DEF TasksInv
    <2>6. ResponseInv(i)'
      <3>1. \A kind, v : Expected(sched_events, i, kind, v)
        BY <1>3, <2>1, AtRest
      <3>2. ResponseInv(i)
        BY <1>3 DEF IndexInv
      <3>3. erasing # i
        BY <1>3, <2>1, AtRest
      <3>. QED  BY <1>4, <3>1, <3>2, <3>3, ZenonT(40) DEF ResponseInv, EventDue, ReadyDue, At
    <2>7. ResumeInv(i)'
      BY <1>3, <1>4 DEF IndexInv, ResumeInv, At
    <2>8. NotifierInv(i)'
      <3>1. ~Has(ctrl_queue, {"rlf"}, i)
        BY <1>3, <2>1, <2>3, AtRest
      <3>2. Owned(ctrl_queue, {"rlf"}, i, u)
        BY <3>1, ZenonT(40) DEF Has, Owned
      <3>. QED  BY <1>3, <1>4, <2>2, <3>1, <3>2 DEF IndexInv, NotifierInv
    <2>. QED  BY <2>4, <2>5, <2>6, <2>7, <2>8 DEF IndexInv
  <1>. QED  BY <1>3, <1>4, <1>8, <1>9, <1>10, <1>11, <1>12, OneIndex DEF DuAssertionsHold

\* An UL CCCH indication, with or without a free index.
LEMMA CreateUeKeepsInv ==
    ASSUME DuUeAssumption, DuInv, CreateUe
    PROVE  DuInv'
  <1>1. /\ failed = None
        /\ UNCHANGED <<f1ap_ues, mac_ctrl, mac_ul, mac_dl, sched, ues_to_rem, erasing, sched_events, ready,
                       proc, ctrl_queue, known, triggers, phy, notifier>>
    BY DEF CreateUe, CtrlFree, rlf_vars, rem_vars
  <1>2. CASE failed' = "no free UE index" /\ UNCHANGED <<du_db, tasks, created>>
    BY <1>1, <1>2, StutterKeepsInv DEF inv_vars, DuAssertionsHold, Unguarded
  <1>3. ASSUME NEW i \in FreeIndexes, created + 1 \in Ues,
               du_db' = [du_db EXCEPT ![i] = created + 1],
               tasks' = [tasks EXCEPT ![i] = Append(@, Task("create", i, created + 1))],
               created' = created + 1, failed' = failed
        PROVE  DuInv'
    <2>1. i \in Indexes /\ du_db[i] = None /\ tasks[i] = <<>>
      BY DEF FreeIndexes
    <2>. QED  BY <1>1, <1>3, <2>1, TakeIndexKeepsInv
  <1>. QED  BY <1>2, <1>3 DEF CreateUe

\* A setup or the first removal of a UE that is queued at its sequencer.
LEMMA ScheduleKeepsInv ==
    ASSUME DuUeAssumption, DuInv, NEW kind \in Removals \union {"setup"}, NEW u \in Ues, Schedule(kind, u),
           triggers[u] = 0, triggers' \in [Ues -> Nat], kind \in Removals => triggers'[u] > 0,
           \A v \in Ues : triggers[v] > 0 => triggers'[v] > 0
    PROVE  DuInv'
  <1>1. PICK i \in Indexes : f1ap_ues[i] = u /\ tasks' = [tasks EXCEPT ![i] = Append(@, Task(kind, i, u))]
    BY DEF Schedule
  <1>2. DuTypeOK /\ UesDistinct /\ PhyInv /\ failed = None /\ IndexInv(i)
    BY DEF DuInv, Schedule, CtrlFree
  <1>3. /\ u \in known /\ u # None
        /\ UNCHANGED <<du_db, f1ap_ues, mac_ctrl, mac_ul, mac_dl, sched, ues_to_rem, erasing, sched_events, ready,
                       proc, ctrl_queue, created, known, phy, notifier, failed>>
    BY DEF Schedule, db_vars, rem_vars, rlf_vars, DuUeAssumption
  <1>4. PICK t : t = Task(kind, i, u)
    OBVIOUS
  <1>5. t \in Tasks /\ t.kind = kind /\ t.ue = u
    BY <1>4 DEF Task, Tasks, Procedures, Removals
  <1>6. tasks \in [Indexes -> Seq(Tasks)] /\ tasks[i] \in Seq(Tasks) /\ Append(tasks[i], t) \in Seq(Tasks)
    BY <1>2, <1>5 DEF DuTypeOK
  <1>7. tasks' = [tasks EXCEPT ![i] = Append(tasks[i], t)] /\ tasks'[i] = Append(tasks[i], t)
    BY <1>1, <1>4, <1>6
  <1>8. DuTypeOK'
    <2>1. tasks' \in [Indexes -> Seq(Tasks)]
      BY <1>6, <1>7
    <2>. QED  BY <1>2, <1>3, <2>1 DEF DuTypeOK
  <1>9. UesDistinct' /\ PhyInv'
    BY <1>2, <1>3 DEF UesDistinct, PhyInv
  <1>10. \A j \in Indexes \ {i} : Untouched(j)
    BY <1>2, <1>3, <1>6, <1>7, ZenonT(60) DEF Untouched, QueueStep, DuTypeOK
  <1>11. du_db[i] = u
    BY <1>1, <1>2, <1>3, Nested DEF IndexInv
  <1>12. proc[i].kind \in {"none", "setup"}
    <2>1. ~Creating(i)
      BY <1>3, <1>11 DEF Creating
    <2>2. ~Removing(i)
      BY <1>11 DEF Removing
    <2>. QED  BY <1>2, <2>1, <2>2 DEF IndexInv, ProcInv, Idling, SettingUp, NoProc
  <1>13. Served(tasks[i], u) /\ ~HasRemoval(tasks[i])
    <2>1. Served(<<>>, u) /\ ~HasRemoval(<<>>)
      BY DEF Served, HasRemoval
    <2>. QED  BY <1>1, <1>2, <1>3, <1>11, <2>1 DEF IndexInv, TasksInv
  <1>14. Served(tasks'[i], u) /\ (HasRemoval(tasks'[i]) => triggers'[u] > 0)
    BY <1>5, <1>6, <1>7, <1>13, AppendFacts
  <1>15. IndexInv(i)'
    <2>1. ProcInv(i)'
      <3>1. CASE Idling(i)
        BY <1>3, <3>1 DEF ProcInv, Idling, Contexts
      <3>2. CASE SettingUp(i)
        BY <1>3, <3>2 DEF ProcInv, SettingUp, Contexts
      <3>. QED  BY <1>2, <1>12, <3>1, <3>2 DEF IndexInv, ProcInv, Creating, Removing, Removals
    <2>2. TasksInv(i)'
      BY <1>1, <1>3, <1>11, <1>12, <1>14 DEF TasksInv
    <2>3. ResponseInv(i)'
      BY <1>2, <1>3 DEF IndexInv, ResponseInv, EventDue, ReadyDue, At
    <2>4. ResumeInv(i)' /\ NotifierInv(i)'
      BY <1>2, <1>3 DEF IndexInv, ResumeInv, NotifierInv, At
    <2>. QED  BY <2>1, <2>2, <2>3, <2>4 DEF IndexInv
  <1>. QED  BY <1>2, <1>3, <1>8, <1>9, <1>10, <1>15, OneIndex DEF DuAssertionsHold

\* What the CU asks: setups, and one removal of each UE, by a release command or
\* for an old UE id.
LEMMA CuKeepsInv ==
    ASSUME DuUeAssumption, MaxTriggers <= 1, DuInv, NEW u \in Ues,
           ContextSetup(u) \/ ReleaseCommand(u) \/ RemoveOldUe(u)
    PROVE  DuInv'
  <1>1. triggers \in [Ues -> Nat]
    BY DEF DuInv, DuTypeOK
  <1>2. CASE ContextSetup(u)
    BY <1>1, <1>2, ScheduleKeepsInv DEF ContextSetup, Removals
  <1>3. CASE ReleaseCommand(u) \/ RemoveOldUe(u)
    <2>1. triggers[u] = 0 /\ triggers' = [triggers EXCEPT ![u] = 1]
      BY <1>1, <1>3 DEF ReleaseCommand, RemoveOldUe, DuUeAssumption
    <2>2. /\ triggers' \in [Ues -> Nat] /\ triggers'[u] > 0
          /\ \A v \in Ues : triggers[v] > 0 => triggers'[v] > 0
      BY <1>1, <2>1
    <2>3. \E kind \in Removals : Schedule(kind, u)
      BY <1>3 DEF ReleaseCommand, RemoveOldUe, Removals
    <2>. QED  BY <2>1, <2>2, <2>3, ScheduleKeepsInv
  <1>. QED  BY <1>2, <1>3

\* A step of the control thread that changes index i only.
ControlOf(i) ==
    /\ du_db' = [du_db EXCEPT ![i] = du_db'[i]] /\ du_db'[i] \in {None, du_db[i]}
    /\ f1ap_ues' = [f1ap_ues EXCEPT ![i] = f1ap_ues'[i]] /\ f1ap_ues'[i] \in Ues \union {None}
    /\ mac_ctrl' = [mac_ctrl EXCEPT ![i] = mac_ctrl'[i]] /\ mac_ctrl'[i] \in Ues \union {None}
    /\ tasks' = [tasks EXCEPT ![i] = tasks'[i]] /\ tasks'[i] \in Seq(Tasks)
    /\ proc' = [proc EXCEPT ![i] = proc'[i]] /\ proc'[i] \in [kind : Procedures \union {"none"}, parts : Stages]
    /\ ready' = [ready EXCEPT ![i] = ready'[i]] /\ ready'[i] \in BOOLEAN
    /\ \/ sched_events' = sched_events
       \/ \E e \in Tasks : e.ue_index = i /\ sched_events' = Append(sched_events, e)
    /\ \/ ctrl_queue' = ctrl_queue
       \/ ctrl_queue # <<>> /\ Head(ctrl_queue).ue_index = i /\ ctrl_queue' = Tail(ctrl_queue)
    /\ known' = known \/ (du_db[i] # None /\ known' = known \union {du_db[i]})
    /\ UNCHANGED <<mac_ul, mac_dl, sched, ues_to_rem, erasing, created, triggers, phy, notifier>>

\* It keeps the invariant when it keeps what is true of the index.
LEMMA ControlStep ==
    ASSUME DuUeAssumption, DuInv, NEW i \in Indexes, ControlOf(i), DuAssertionsHold', IndexInv(i)'
    PROVE  DuInv'
  <1>. USE DEF ControlOf
  <1>1. DuTypeOK /\ UesDistinct /\ PhyInv
    BY DEF DuInv
  <1>2. DuTypeOK'
    <2>1. /\ du_db' \in [Indexes -> Ues \union {None}] /\ f1ap_ues' \in [Indexes -> Ues \union {None}]
          /\ mac_ctrl' \in [Indexes -> Ues \union {None}]
      <3>1. du_db'[i] \in Ues \union {None}
        BY <1>1 DEF DuTypeOK
      <3>2. du_db' \in [Indexes -> Ues \union {None}]
        BY <1>1, <3>1, ZenonT(60) DEF DuTypeOK
      <3>3. f1ap_ues' \in [Indexes -> Ues \union {None}]
        BY <1>1, ZenonT(60) DEF DuTypeOK
      <3>4. mac_ctrl' \in [Indexes -> Ues \union {None}]
        BY <1>1, ZenonT(60) DEF DuTypeOK
      <3>. QED  BY <3>2, <3>3, <3>4
    <2>2. tasks' \in [Indexes -> Seq(Tasks)]
      <3>1. tasks \in [Indexes -> Seq(Tasks)]
        BY <1>1 DEF DuTypeOK
      <3>. QED  BY <3>1
    <2>3. proc' \in [Indexes -> [kind : Procedures \union {"none"}, parts : Stages]]
      <3>1. proc \in [Indexes -> [kind : Procedures \union {"none"}, parts : Stages]]
        BY <1>1 DEF DuTypeOK
      <3>. QED  BY <3>1
    <2>4. ready' \in [Indexes -> BOOLEAN]
      BY <1>1 DEF DuTypeOK
    <2>5. sched_events' \in Seq(Tasks)
      <3>1. sched_events \in Seq(Tasks)
        BY <1>1 DEF DuTypeOK
      <3>. QED  BY <3>1, AppendFacts, ZenonT(40)
    <2>6. ctrl_queue' \in Seq(Tasks)
      <3>1. ctrl_queue \in Seq(Tasks)
        BY <1>1 DEF DuTypeOK
      <3>2. ctrl_queue # <<>> => Tail(ctrl_queue) \in Seq(Tasks)
        BY <3>1, TailFacts
      <3>. QED  BY <3>1, <3>2, ZenonT(40)
    <2>7. known' \subseteq Ues
      <3>1. known \subseteq Ues /\ (du_db[i] # None => du_db[i] \in Ues)
        BY <1>1 DEF DuTypeOK
      <3>2. known' = known \/ (du_db[i] # None /\ known' = known \union {du_db[i]})
        OBVIOUS
      <3>. HIDE DEF ControlOf
      <3>. QED  BY <3>1, <3>2
    <2>. QED  BY <1>1, <2>1, <2>2, <2>3, <2>4, <2>5, <2>6, <2>7 DEF DuTypeOK
  <1>3. UesDistinct'
    <2>1. \A j \in Indexes : j # i => du_db'[j] = du_db[j]
      BY <1>1 DEF DuTypeOK
    <2>. QED  BY <1>1, <2>1 DEF UesDistinct
  <1>4. PhyInv'
    BY <1>1 DEF PhyInv
  <1>5. ASSUME NEW j \in Indexes \ {i}
        PROVE  Untouched(j)
    <2>1. QueueStep(sched_events, sched_events', j)
      BY <1>5 DEF QueueStep
    <2>2. QueueStep(ctrl_queue, ctrl_queue', j)
      BY <1>5 DEF QueueStep
    <2>3. du_db[j] # None /\ du_db[j] \notin known => du_db[j] \notin known'
      BY <1>1, <1>5 DEF UesDistinct
    <2>. QED  BY <1>1, <1>5, <2>1, <2>2, <2>3 DEF Untouched, DuTypeOK
  <1>. QED  BY <1>2, <1>3, <1>4, <1>5, OneIndex

\* An index at rest awaits nothing after a step that makes it await nothing.
LEMMA Quiet ==
    ASSUME DuUeAssumption, DuTypeOK, NEW i \in Indexes, IndexInv(i), proc[i] = NoProc,
           ~At(i, "sched")', ~At(i, "resume")', UNCHANGED <<sched_events, ctrl_queue, ues_to_rem, erasing, ready>>
    PROVE  ResponseInv(i)' /\ ResumeInv(i)'
  <1>1. /\ ~EventDue(i) /\ i \notin ues_to_rem /\ erasing # i /\ ~ReadyDue(i) /\ ~ready[i]
        /\ ~Has(ctrl_queue, {"resume"}, i) /\ \A kind, v : Expected(sched_events, i, kind, v)
    BY AtRest
  <1>2. ResponseInv(i) /\ ResumeInv(i)
    BY DEF IndexInv
  <1>3. ResponseInv(i)'
    BY <1>1, <1>2, ZenonT(40) DEF ResponseInv, EventDue, ReadyDue
  <1>4. ResumeInv(i)'
    BY <1>1, <1>2, ZenonT(40) DEF ResumeInv
  <1>. QED  BY <1>3, <1>4

\* A procedure that starts with an event for the scheduler awaits the response.
LEMMA Asked ==
    ASSUME DuUeAssumption, DuTypeOK, NEW i \in Indexes, IndexInv(i), proc[i] = NoProc, NEW kind \in Procedures,
           du_db[i] \in Ues, At(i, "sched")', ~At(i, "resume")', proc'[i].kind = kind,
           sched_events' = Append(sched_events, Task(kind, i, du_db[i])),
           UNCHANGED <<du_db, ctrl_queue, ues_to_rem, erasing, ready>>
    PROVE  ResponseInv(i)' /\ ResumeInv(i)'
  <1>1. /\ ~EventDue(i) /\ i \notin ues_to_rem /\ erasing # i /\ ~ReadyDue(i) /\ ~ready[i]
        /\ ~Has(ctrl_queue, {"resume"}, i) /\ \A k, v : Expected(sched_events, i, k, v)
    BY AtRest
  <1>2. ResponseInv(i) /\ ResumeInv(i)
    BY DEF IndexInv
  <1>3. PICK t : t = Task(kind, i, du_db[i])
    OBVIOUS
  <1>4. t \in Tasks /\ Matches(t, Procedures, i)
    BY <1>3 DEF Task, Tasks, Matches
  <1>5. sched_events' = Append(sched_events, t) /\ sched_events \in Seq(Tasks)
    BY <1>3 DEF DuTypeOK
  <1>6. /\ Has(sched_events', Procedures, i) /\ Once(sched_events', Procedures, i)
        /\ Expected(sched_events', i, kind, du_db[i])
    <2>1. ~Has(sched_events, Procedures, i) /\ Once(sched_events, Procedures, i)
      BY <1>1, <1>2, ZenonT(40) DEF ResponseInv, EventDue
    <2>2. Expected(sched_events, i, kind, du_db[i])
      BY <1>1
    <2>3. /\ \A kinds, j : Has(sched_events', kinds, j) <=> Has(sched_events, kinds, j) \/ Matches(t, kinds, j)
          /\ \A kinds, j : Once(sched_events, kinds, j) /\ ~(Has(sched_events, kinds, j) /\ Matches(t, kinds, j))
                            => Once(sched_events', kinds, j)
          /\ \A j, k, v : Expected(sched_events, j, k, v) /\ (t.ue_index = j => t = Task(k, j, v))
                            => Expected(sched_events', j, k, v)
      BY <1>4, <1>5, AppendFacts, SMTT(60)
    <2>. QED  BY <1>3, <1>4, <2>1, <2>2, <2>3, ZenonT(40)
  <1>7. ResponseInv(i)'
    BY <1>1, <1>2, <1>6, ZenonT(40) DEF ResponseInv, EventDue, ReadyDue
  <1>8. ResumeInv(i)'
    BY <1>1, <1>2, ZenonT(40) DEF ResumeInv
  <1>. QED  BY <1>7, <1>8

\* What the sequencer of an index at rest may find in its queue.
LEMMA NextTask ==
    ASSUME DuUeAssumption, DuTypeOK, NEW i \in Indexes, IndexInv(i), proc[i] = NoProc, tasks[i] # <<>>
    PROVE  LET u == du_db[i]  q == tasks[i]  kind == Head(q).kind IN
           /\ u \in Ues /\ u # None /\ Tail(q) \in Seq(Tasks)
           /\ \/ kind \in {"create", "erase"} /\ Tail(q) = <<>> /\ Contexts(i, None, None, None, None)
              \/ kind \in Removals \union {"setup"} /\ Head(q).ue = u /\ Contexts(i, u, u, u, u)
           /\ kind = "create" => u \notin known
           /\ kind = "setup" => Served(Tail(q), u) /\ (HasRemoval(Tail(q)) => triggers[u] > 0)
           /\ kind \in Removals => Tail(q) = <<>> /\ triggers[u] > 0
  <1>. DEFINE u == du_db[i]
              q == tasks[i]
  <1>1. q \in Seq(Tasks) /\ q # <<>>
    BY DEF DuTypeOK
  <1>2. Tail(q) \in Seq(Tasks)
    BY <1>1, TailFacts
  <1>3. Idling(i) /\ TasksInv(i)
    BY AtRest DEF IndexInv
  <1>4. u # None /\ u \in Ues
    <2>1. u # None
      BY <1>1, <1>3 DEF TasksInv
    <2>. QED  BY <2>1 DEF DuTypeOK
  <1>5. ASSUME NEW kind \in {"create", "erase"}, q = <<Task(kind, i, u)>>, f1ap_ues[i] = None
        PROVE  Head(q).kind = kind /\ Tail(q) = <<>> /\ Contexts(i, None, None, None, None)
    BY <1>3, <1>4, <1>5 DEF Task, Idling, Contexts
  <1>6. CASE q = <<Task("create", i, u)>> /\ u \notin known /\ f1ap_ues[i] = None
    BY <1>2, <1>4, <1>5, <1>6 DEF Removals
  <1>7. CASE q = <<Task("erase", i, u)>> /\ f1ap_ues[i] = None
    BY <1>2, <1>4, <1>5, <1>7 DEF Removals
  <1>8. CASE f1ap_ues[i] = u /\ Served(q, u) /\ (HasRemoval(q) => triggers[u] > 0)
    <2>1. Contexts(i, u, u, u, u)
      BY <1>3, <1>4, <1>8 DEF Idling, Contexts
    <2>2. /\ Head(q).ue = u /\ Head(q).kind \in Removals \union {"setup"} /\ Served(Tail(q), u)
          /\ Head(q).kind \in Removals => Tail(q) = <<>>
      BY <1>1, <1>8, TailFacts
    <2>3. HasRemoval(Tail(q)) \/ Head(q).kind \in Removals => triggers[u] > 0
      BY <1>1, <1>8, TailFacts
    <2>4. Head(q).kind # "create"
      BY <2>2 DEF Removals
    <2>. QED  BY <1>2, <1>4, <2>1, <2>2, <2>3, <2>4
  <1>. QED  BY <1>1, <1>3, <1>6, <1>7, <1>8 DEF TasksInv

\* The creation begins: F1AP and MAC controller contexts are added on the control
\* thread.
LEMMA StartCreateKeepsInv ==
    ASSUME DuUeAssumption, DuInv, NEW i \in Indexes, proc[i] = NoProc, tasks[i] # <<>>, Head(tasks[i]).kind = "create",
           StartCreate(i), failed = None, UNCHANGED <<du_db, mac_ul, mac_dl, sched, rem_vars, ready, ctrl_queue, cu_vars, rlf_vars>>
    PROVE  DuInv'
  <1>. DEFINE u == du_db[i]
  <1>1. DuTypeOK /\ IndexInv(i) /\ failed = None
    BY DEF DuInv
  <1>2. /\ UNCHANGED <<created, known, triggers, setups, phy, notifier>>
        /\ UNCHANGED <<du_db, mac_ul, mac_dl, sched, ues_to_rem, erasing, ready, ctrl_queue>>
    BY DEF cu_vars, rlf_vars, rem_vars
  <1>3. /\ u \in Ues /\ u # None /\ Tail(tasks[i]) = <<>> /\ u \notin known
        /\ Contexts(i, None, None, None, None)
    BY <1>1, NextTask DEF Removals
  <1>4. /\ du_db' = [du_db EXCEPT ![i] = u] /\ ready' = [ready EXCEPT ![i] = ready[i]] /\ ready[i] \in BOOLEAN
    BY <1>1, <1>2 DEF DuTypeOK
  <1>5. /\ f1ap_ues[i] = None /\ mac_ctrl[i] = None /\ mac_ul[i] = None /\ mac_dl[i] = None /\ sched[i] = None
        /\ ~Has(ctrl_queue, {"rlf"}, i) /\ Idling(i)
    BY <1>1, <1>3, AtRest DEF Contexts
  <1>6. CASE /\ tasks' = [tasks EXCEPT ![i] = Append(Tail(@), Task("erase", i, u))]
             /\ UNCHANGED <<f1ap_ues, marked, mac_ctrl, proc, running, sched_events, failed>>
    <2>1. PICK t : t = <<Task("erase", i, u)>>
      OBVIOUS
    <2>2. Task("erase", i, u) \in Tasks
      BY <1>3 DEF Task, Tasks
    <2>3. t \in Seq(Tasks)
      BY <2>1, <2>2
    <2>4. tasks' = [tasks EXCEPT ![i] = t]
      <3>1. PICK r : r = Tail(tasks[i])
        OBVIOUS
      <3>2. r = <<>>
        BY <1>3, <3>1, ZenonT(40)
      <3>3. Append(r, Task("erase", i, u)) = t
        BY <2>1, <3>2
      <3>. QED  BY <1>6, <3>1, <3>3, ZenonT(40)
    <2>5. /\ f1ap_ues' = [f1ap_ues EXCEPT ![i] = f1ap_ues[i]] /\ mac_ctrl' = [mac_ctrl EXCEPT ![i] = mac_ctrl[i]]
          /\ proc' = [proc EXCEPT ![i] = NoProc] /\ NoProc \in [kind : Procedures \union {"none"}, parts : Stages]
      BY <1>1, <1>6 DEF DuTypeOK, NoProc, Stages
    <2>6. ProcInv(i)'
      BY <1>2, <1>5, <1>6 DEF ProcInv, Idling, Contexts
    <2>7. tasks'[i] = <<Task("erase", i, du_db'[i])>>
      BY <1>1, <1>2, <2>1, <2>4 DEF DuTypeOK
    <2>8. TasksInv(i)'
      BY <1>2, <1>3, <1>5, <1>6, <2>7 DEF TasksInv
    <2>9. ResponseInv(i)' /\ ResumeInv(i)'
      BY <1>1, <1>2, <1>6, AtRest, Quiet DEF At
    <2>10. NotifierInv(i)'
      BY <1>1, <1>2, <1>6 DEF IndexInv, NotifierInv
    <2>11. IndexInv(i)'
      BY <2>6, <2>8, <2>9, <2>10 DEF IndexInv
    <2>12. tasks'[i] = t /\ proc'[i] = NoProc /\ failed' = None
      BY <1>1, <1>6, <2>4, <2>5 DEF DuTypeOK
    <2>13. ControlOf(i)
      <3>1. /\ tasks' = [tasks EXCEPT ![i] = tasks'[i]] /\ tasks'[i] \in Seq(Tasks)
        BY <2>3, <2>4, <2>12
      <3>2. proc' = [proc EXCEPT ![i] = proc'[i]] /\ proc'[i] \in [kind : Procedures \union {"none"}, parts : Stages]
        BY <2>5, <2>12, ZenonT(40)
      <3>. QED  BY <1>1, <1>2, <1>6, <3>1, <3>2 DEF ControlOf, DuTypeOK
    <2>. QED  BY <2>11, <2>12, <2>13, ControlStep DEF DuAssertionsHold
  <1>7. CASE /\ tasks' = [tasks EXCEPT ![i] = Tail(@)]
             /\ failed' = IF f1ap_ues[i] # None THEN "f1ap add_ue" ELSE IF mac_ctrl[i] # None THEN "mac add_ue" ELSE failed
             /\ f1ap_ues' = [f1ap_ues EXCEPT ![i] = u]
             /\ mac_ctrl' = [mac_ctrl EXCEPT ![i] = u]
             /\ \E parts \in Parts("create") : Enter(i, "create", parts)
    <2>1. PICK p : p = [kind |-> "create", parts |-> C0]
      OBVIOUS
    <2>2. proc' = [proc EXCEPT ![i] = p] /\ sched_events' = sched_events
      BY <1>7, <2>1, StageFacts DEF Enter
    <2>3. p \in [kind : Procedures \union {"none"}, parts : Stages] /\ p.kind = "create" /\ p.parts = C0
      BY <2>1 DEF Procedures, Stages, SetupStages
    <2>4. <<>> \in Seq(Tasks) /\ tasks' = [tasks EXCEPT ![i] = <<>>] /\ failed' = None
      <3>1. tasks' = [tasks EXCEPT ![i] = Tail(tasks[i])]
        BY <1>7
      <3>2. failed' = None
        BY <1>1, <1>5, <1>7
      <3>3. tasks' = [tasks EXCEPT ![i] = <<>>]
        BY <1>3, <3>1, ZenonT(40)
      <3>. QED  BY <3>2, <3>3
    <2>5. proc'[i] = p /\ tasks'[i] = <<>> /\ f1ap_ues'[i] = u /\ mac_ctrl'[i] = u /\ du_db'[i] = u
      BY <1>1, <1>2, <1>7, <2>2, <2>4 DEF DuTypeOK
    <2>6. ProcInv(i)'
      <3>1. Contexts(i, u, None, None, None)'
        BY <1>2, <1>5, <2>5 DEF Contexts
      <3>. QED  BY <1>2, <1>3, <2>3, <2>5, <3>1 DEF ProcInv, Creating
    <2>7. TasksInv(i)'
      BY <1>3, <2>5 DEF TasksInv
    <2>8. ResponseInv(i)' /\ ResumeInv(i)'
      <3>1. ~At(i, "sched")' /\ ~At(i, "resume")'
        BY <2>3, <2>5, StageFacts DEF At
      <3>. QED  BY <1>1, <1>2, <2>2, <3>1, Quiet
    <2>9. NotifierInv(i)'
      <3>1. NotifierInv(i) /\ proc'[i].kind \notin Removals
        BY <1>1, <2>3, <2>5 DEF IndexInv, Removals
      <3>. QED  BY <1>2, <1>5, <3>1 DEF NotifierInv
    <2>10. IndexInv(i)'
      BY <2>6, <2>7, <2>8, <2>9 DEF IndexInv
    <2>11. ControlOf(i)
      <3>1. /\ tasks' = [tasks EXCEPT ![i] = tasks'[i]] /\ tasks'[i] \in Seq(Tasks)
        BY <2>4, <2>5
      <3>2. proc' = [proc EXCEPT ![i] = proc'[i]] /\ proc'[i] \in [kind : Procedures \union {"none"}, parts : Stages]
        BY <2>2, <2>3, <2>5
      <3>3. /\ f1ap_ues' = [f1ap_ues EXCEPT ![i] = f1ap_ues'[i]] /\ f1ap_ues'[i] \in Ues \union {None}
            /\ mac_ctrl' = [mac_ctrl EXCEPT ![i] = mac_ctrl'[i]] /\ mac_ctrl'[i] \in Ues \union {None}
        BY <1>3, <1>7, <2>5
      <3>. QED  BY <1>1, <1>2, <2>2, <3>1, <3>2, <3>3 DEF ControlOf, DuTypeOK
    <2>. QED  BY <2>4, <2>10, <2>11, ControlStep DEF DuAssertionsHold
  <1>. QED  BY <1>6, <1>7 DEF StartCreate

\* A procedure that the CU asked for starts, or fails at once.
LEMMA StartKeepsInv ==
    ASSUME DuUeAssumption, DuInv, NEW i \in Indexes, proc[i] = NoProc, tasks[i] # <<>>,
           NEW kind \in Removals \union {"setup"}, Head(tasks[i]).kind = kind,
           NEW p, (\E parts \in Parts(kind) : p = [kind |-> kind, parts |-> parts]) \/ (kind = "setup" /\ p = NoProc),
           tasks' = [tasks EXCEPT ![i] = Tail(@)], proc' = [proc EXCEPT ![i] = p], failed' = None,
           \/ sched_events' = sched_events /\ (p.parts = <<>> \/ Head(p.parts) # "sched")
           \/ /\ p.parts # <<>> /\ Head(p.parts) = "sched"
              /\ sched_events' = Append(sched_events, Task(kind, i, du_db[i])),
           UNCHANGED <<du_db, f1ap_ues, mac_ctrl, mac_ul, mac_dl, sched, ues_to_rem, erasing, ready, ctrl_queue,
                       created, known, triggers, phy, notifier>>
    PROVE  DuInv'
  <1>. DEFINE u == du_db[i]
  <1>1. DuTypeOK /\ IndexInv(i)
    BY DEF DuInv
  <1>2. /\ u \in Ues /\ u # None /\ Tail(tasks[i]) \in Seq(Tasks)
        /\ kind = "setup" => Served(Tail(tasks[i]), u) /\ (HasRemoval(Tail(tasks[i])) => triggers[u] > 0)
        /\ kind \in Removals => Tail(tasks[i]) = <<>> /\ triggers[u] > 0
    BY <1>1, NextTask
  <1>3. Contexts(i, u, u, u, u)
    <2>1. kind \notin {"create", "erase"}
      BY DEF Removals
    <2>. QED  BY <1>1, <2>1, NextTask
  <1>4. /\ f1ap_ues[i] = u /\ mac_ctrl[i] = u /\ mac_ul[i] = u /\ mac_dl[i] = u /\ sched[i] = u
    BY <1>3 DEF Contexts
  <1>5. PICK t : t = Tail(tasks[i])
    OBVIOUS
  <1>6. tasks' = [tasks EXCEPT ![i] = t] /\ t \in Seq(Tasks)
    BY <1>2, <1>5, ZenonT(40)
  <1>7. /\ kind = "setup" => Served(t, u) /\ (HasRemoval(t) => triggers[u] > 0)
        /\ kind \in Removals => t = <<>> /\ triggers[u] > 0
    BY <1>2, <1>5, ZenonT(40)
  <1>8. /\ p.kind \in Procedures \union {"none"} /\ p.parts \in Stages
        /\ p \in [kind : Procedures \union {"none"}, parts : Stages]
    <2>1. ASSUME NEW parts \in Parts(kind), p = [kind |-> kind, parts |-> parts]
          PROVE  /\ p.kind \in Procedures \union {"none"} /\ p.parts \in Stages
                 /\ p \in [kind : Procedures \union {"none"}, parts : Stages]
      <3>1. parts \in Stages
        BY StageFacts, SetupFacts, SMTT(60) DEF Stages, SetupStages, Removals
      <3>2. kind \in Procedures
        BY DEF Procedures, Removals
      <3>. QED  BY <2>1, <3>1, <3>2
    <2>2. CASE p = NoProc
      BY <2>2 DEF NoProc, Stages
    <2>. QED  BY <2>1, <2>2
  <1>9. /\ proc'[i] = p /\ tasks'[i] = t /\ du_db'[i] = u
    BY <1>1, <1>6 DEF DuTypeOK
  <1>10. \/ kind = "setup" /\ p = NoProc
         \/ kind = "setup" /\ p.kind = "setup" /\ p.parts \in {C0, S0, C2, S2}
         \/ kind = "release" /\ p.kind = "release" /\ p.parts = W0
         \/ kind = "delete" /\ p.kind = "delete" /\ p.parts = D0
    BY StageFacts, SetupFacts, SMTT(60) DEF Removals
  <1>11. Contexts(i, u, u, u, u)'
    BY <1>3 DEF Contexts
  <1>12. ProcInv(i)'
    <2>1. CASE kind = "setup" /\ p = NoProc
      BY <1>2, <1>9, <1>11, <2>1 DEF ProcInv, Idling
    <2>2. CASE kind = "setup" /\ p.kind = "setup" /\ p.parts \in {C0, S0, C2, S2}
      BY <1>2, <1>9, <1>11, <2>2 DEF ProcInv, SettingUp, SetupStages
    <2>3. CASE kind \in Removals /\ p.kind \in Removals /\ p.parts \in {W0, D0}
      BY <1>2, <1>7, <1>9, <1>11, <2>3 DEF ProcInv, Removing
    <2>. QED  BY <1>10, <2>1, <2>2, <2>3 DEF Removals
  <1>13. TasksInv(i)'
    <2>1. CASE kind = "setup"
      <3>1. p.kind \in {"none", "setup"}
        BY <1>10, <2>1 DEF NoProc
      <3>. QED  BY <1>2, <1>4, <1>7, <1>9, <2>1, <3>1 DEF TasksInv
    <2>2. CASE kind \in Removals
      BY <1>2, <1>7, <1>9, <2>2 DEF TasksInv
    <2>. QED  BY <2>1, <2>2
  <1>14. ResponseInv(i)' /\ ResumeInv(i)'
    <2>1. ~At(i, "resume")'
      BY <1>9, <1>10, StageFacts, SetupFacts, SMTT(60) DEF At, NoProc
    <2>2. CASE sched_events' = sched_events /\ (p.parts = <<>> \/ Head(p.parts) # "sched")
      <3>1. ~At(i, "sched")'
        BY <1>9, <2>2 DEF At
      <3>. QED  BY <1>1, <2>1, <2>2, <3>1, Quiet
    <2>3. CASE /\ p.parts # <<>> /\ Head(p.parts) = "sched"
               /\ sched_events' = Append(sched_events, Task(kind, i, u))
      <3>1. At(i, "sched")' /\ proc'[i].kind = kind /\ kind \in Procedures
        BY <1>9, <1>10, <2>3 DEF At, NoProc, Procedures
      <3>. QED  BY <1>1, <1>2, <2>1, <2>3, <3>1, Asked
    <2>. QED  BY <2>2, <2>3
  <1>15. NotifierInv(i)'
    <2>1. NotifierInv(i) /\ notifier[i] = u /\ u # Uninitialised
      BY <1>1, <1>2, <1>4 DEF IndexInv, NotifierInv, DuUeAssumption
    <2>. QED  BY <1>2, <1>4, <1>9, <2>1 DEF NotifierInv
  <1>16. IndexInv(i)'
    BY <1>12, <1>13, <1>14, <1>15 DEF IndexInv
  <1>17. ControlOf(i)
    <2>1. /\ tasks' = [tasks EXCEPT ![i] = tasks'[i]] /\ tasks'[i] \in Seq(Tasks)
      BY <1>6, <1>9
    <2>2. proc' = [proc EXCEPT ![i] = proc'[i]] /\ proc'[i] \in [kind : Procedures \union {"none"}, parts : Stages]
      BY <1>8, <1>9, ZenonT(40)
    <2>3. \/ sched_events' = sched_events
          \/ \E e \in Tasks : e.ue_index = i /\ sched_events' = Append(sched_events, e)
      <3>1. Task(kind, i, u) \in Tasks /\ Task(kind, i, u).ue_index = i
        BY <1>2 DEF Task, Tasks, Procedures, Removals
      <3>. QED  BY <3>1, ZenonT(40)
    <2>. QED  BY <1>1, <2>1, <2>2, <2>3 DEF ControlOf, DuTypeOK
  <1>. QED  BY <1>16, <1>17, ControlStep DEF DuAssertionsHold

\* The task that frees the DU manager's context of a removed UE.
LEMMA StartEraseKeepsInv ==
    ASSUME DuUeAssumption, DuInv, NEW i \in Indexes, proc[i] = NoProc, tasks[i] # <<>>, Head(tasks[i]).kind = "erase",
           StartErase(i), failed = None,
           UNCHANGED <<mac_ul, mac_dl, sched, ues_to_rem, erasing, ready, ctrl_queue, created, known, triggers, phy, notifier>>
    PROVE  DuInv'
  <1>1. DuTypeOK /\ IndexInv(i) /\ failed = None
    BY DEF DuInv
  <1>2. du_db[i] # None /\ Tail(tasks[i]) = <<>> /\ Contexts(i, None, None, None, None)
    BY <1>1, NextTask DEF Removals
  <1>3. /\ f1ap_ues[i] = None /\ mac_ctrl[i] = None /\ mac_ul[i] = None /\ mac_dl[i] = None /\ sched[i] = None
        /\ ~Has(ctrl_queue, {"rlf"}, i)
    BY <1>1, <1>2, AtRest DEF Contexts
  <1>4. /\ failed' = None /\ du_db' = [du_db EXCEPT ![i] = None]
        /\ UNCHANGED <<f1ap_ues, mac_ctrl, proc, sched_events>>
    BY <1>1, <1>2 DEF StartErase
  <1>5. tasks' = [tasks EXCEPT ![i] = <<>>]
    BY <1>2, ZenonT(40) DEF StartErase
  <1>6. du_db'[i] = None /\ tasks'[i] = <<>>
    BY <1>1, <1>4, <1>5 DEF DuTypeOK
  <1>7. ProcInv(i)'
    BY <1>3, <1>4 DEF ProcInv, Idling, Contexts
  <1>8. TasksInv(i)'
    BY <1>4, <1>6 DEF TasksInv
  <1>9. ResponseInv(i)' /\ ResumeInv(i)'
    BY <1>1, <1>4, AtRest, Quiet DEF At
  <1>10. NotifierInv(i)'
    <2>1. NotifierInv(i)
      BY <1>1 DEF IndexInv
    <2>2. Owned(ctrl_queue, {"rlf"}, i, None)
      BY <1>3, ZenonT(40) DEF Has, Owned
    <2>. QED  BY <1>3, <1>4, <1>6, <2>1, <2>2 DEF NotifierInv
  <1>11. IndexInv(i)'
    BY <1>7, <1>8, <1>9, <1>10 DEF IndexInv
  <1>12. ControlOf(i)
    <2>1. /\ tasks' = [tasks EXCEPT ![i] = tasks'[i]] /\ tasks'[i] \in Seq(Tasks)
      <3>1. <<>> \in Seq(Tasks)
        OBVIOUS
      <3>. QED  BY <1>5, <1>6, <3>1, ZenonT(40)
    <2>2. du_db' = [du_db EXCEPT ![i] = du_db'[i]] /\ du_db'[i] \in {None, du_db[i]}
      BY <1>4, <1>6
    <2>. QED  BY <1>1, <1>4, <2>1, <2>2 DEF ControlOf, DuTypeOK
  <1>. QED  BY <1>4, <1>11, <1>12, ControlStep DEF DuAssertionsHold

\* The sequencer of an index takes its next task.
LEMMA RunSequencerKeepsInv ==
    ASSUME DuUeAssumption, DuInv, NEW i \in Indexes, RunSequencer(i)
    PROVE  DuInv'
  <1>1. /\ proc[i] = NoProc /\ failed = None /\ DuTypeOK /\ IndexInv(i)
        /\ UNCHANGED <<mac_ul, mac_dl, sched, rem_vars, ready, ctrl_queue, cu_vars, rlf_vars>>
        /\ UNCHANGED <<ues_to_rem, erasing, created, known, triggers, phy, notifier>>
    BY DEF RunSequencer, cu_vars, rlf_vars, rem_vars, DuInv
  <1>2. CASE tasks[i] = <<>>
    BY <1>1, <1>2, StutterKeepsInv DEF RunSequencer, inv_vars, DuAssertionsHold
  <1>3. CASE tasks[i] # <<>>
    <2>. DEFINE kind == Head(tasks[i]).kind
    <2>1. /\ kind \in Removals \union {"setup", "create", "erase"}
          /\ kind \in Removals \union {"setup"} => Head(tasks[i]).ue = du_db[i] /\ f1ap_ues[i] = du_db[i] /\ du_db[i] # None
      <3>1. kind \in Removals \union {"setup"} => kind \notin {"create", "erase"}
        BY DEF Removals
      <3>. QED  BY <1>1, <1>3, <3>1, NextTask DEF Contexts
    <2>2. CASE kind = "create"
      <3>1. StartCreate(i) /\ UNCHANGED du_db
        BY <1>3, <2>2 DEF RunSequencer
      <3>. QED  BY <1>1, <1>3, <2>2, <3>1, StartCreateKeepsInv
    <2>3. CASE kind = "setup"
      <3>1. StartSetup(i)
        BY <1>3, <2>3 DEF RunSequencer
      <3>2. failed' = None
        BY <1>1, <2>1, <2>3, <3>1 DEF StartSetup
      <3>3. CASE UNCHANGED <<proc, running, sched_events>>
        <4>1. PICK p : p = NoProc
          OBVIOUS
        <4>2. proc' = [proc EXCEPT ![i] = p] /\ sched_events' = sched_events /\ p.parts = <<>>
          BY <1>1, <3>3, <4>1 DEF DuTypeOK, NoProc
        <4>. QED  BY <1>1, <1>3, <2>3, <3>1, <3>2, <4>1, <4>2, StartKeepsInv DEF StartSetup
      <3>4. ASSUME NEW parts \in Parts("setup"), Enter(i, "setup", parts)
            PROVE  DuInv'
        <4>1. PICK p : p = [kind |-> "setup", parts |-> parts]
          OBVIOUS
        <4>2. p.parts = parts /\ parts # <<>>
          BY <4>1, StageFacts, SetupFacts, SMTT(60)
        <4>3. /\ proc' = [proc EXCEPT ![i] = p]
              /\ \/ sched_events' = sched_events /\ Head(p.parts) # "sched"
                 \/ Head(p.parts) = "sched" /\ sched_events' = Append(sched_events, Task("setup", i, du_db[i]))
          BY <3>4, <4>1, <4>2 DEF Enter
        <4>. QED  BY <1>1, <1>3, <2>3, <3>1, <3>2, <4>1, <4>2, <4>3, StartKeepsInv DEF StartSetup
      <3>. QED  BY <3>1, <3>3, <3>4 DEF StartSetup
    <2>4. CASE kind = "release"
      <3>1. StartRelease(i)
        BY <1>3, <2>4 DEF RunSequencer
      <3>2. failed' = None
        BY <1>1, <2>1, <2>4, <3>1 DEF StartRelease, Removals
      <3>3. PICK p : p = [kind |-> "release", parts |-> W0]
        OBVIOUS
      <3>4. proc' = [proc EXCEPT ![i] = p] /\ sched_events' = sched_events
        BY <3>1, <3>3, StageFacts DEF StartRelease, Enter
      <3>5. /\ "release" \in Removals \union {"setup"} /\ Head(p.parts) # "sched"
            /\ \E parts \in Parts("release") : p = [kind |-> "release", parts |-> parts]
        BY <3>3, StageFacts DEF Removals
      <3>. QED  BY <1>1, <1>3, <2>4, <3>1, <3>2, <3>3, <3>4, <3>5, StartKeepsInv DEF StartRelease
    <2>5. CASE kind = "delete"
      <3>1. StartDelete(i)
        BY <1>3, <2>5 DEF RunSequencer
      <3>2. failed' = None /\ du_db[i] # None
        BY <1>1, <2>1, <2>5, <3>1 DEF StartDelete, Removals
      <3>3. PICK p : p = [kind |-> "delete", parts |-> D0]
        OBVIOUS
      <3>4. proc' = [proc EXCEPT ![i] = p] /\ sched_events' = sched_events
        BY <3>1, <3>2, <3>3, StageFacts, SMTT(60) DEF StartDelete, Enter
      <3>5. /\ "delete" \in Removals \union {"setup"} /\ Head(p.parts) # "sched"
            /\ \E parts \in Parts("delete") : p = [kind |-> "delete", parts |-> parts]
        BY <3>3, StageFacts DEF Removals
      <3>. QED  BY <1>1, <1>3, <2>5, <3>1, <3>2, <3>3, <3>4, <3>5, StartKeepsInv DEF StartDelete
    <2>6. CASE kind = "erase"
      <3>1. StartErase(i)
        BY <1>3, <2>6 DEF RunSequencer
      <3>. QED  BY <1>1, <1>3, <2>6, <3>1, StartEraseKeepsInv
    <2>. QED  BY <2>1, <2>2, <2>3, <2>4, <2>5, <2>6 DEF Removals
  <1>. QED  BY <1>2, <1>3

\* An index that awaits no event of the scheduler expects none of any UE.
LEMMA NoneDue ==
    ASSUME NEW i \in Indexes, NEW q \in Seq(Tasks), NEW kind \in Procedures, NEW u, Expected(q, i, kind, u), ~Has(q, Procedures, i)
    PROVE  \A k, v : Expected(q, i, k, v)
  <1>1. ASSUME NEW k \in DOMAIN q, q[k].ue_index = i
        PROVE  FALSE
    <2>1. q[k] = Task(kind, i, u)
      BY <1>1, ZenonT(40) DEF Expected
    <2>2. Matches(q[k], Procedures, i)
      BY <2>1 DEF Matches, Task
    <2>. QED  BY <2>2, ZenonT(40) DEF Has
  <1>. QED  BY <1>1, ZenonT(40) DEF Expected

\* A procedure that is under way and at no resumption has none queued; it is past
\* the removal from the MAC DL only at D2r.
LEMMA UnderWay ==
    ASSUME DuUeAssumption, NEW i \in Indexes, IndexInv(i), NEW part \in {"sched", "ul", "dl", "ue", "wait"}, At(i, part)
    PROVE  /\ proc[i].kind \in Procedures /\ du_db[i] # None
           /\ ~At(i, "resume") /\ ~Has(ctrl_queue, {"resume"}, i)
           /\ proc[i].parts # D2r
           /\ Has(ctrl_queue, {"rlf"}, i) => mac_dl[i] = du_db[i]
           /\ part # "sched" => ~At(i, "sched")
           /\ part # "sched" => /\ ~EventDue(i) /\ i \notin ues_to_rem /\ ~ReadyDue(i) /\ ~ready[i]
  <1>1. ~At(i, "resume") /\ (part # "sched" => ~At(i, "sched"))
    BY DEF At
  <1>2. ~Has(ctrl_queue, {"resume"}, i)
    BY <1>1, ZenonT(40) DEF IndexInv, ResumeInv
  <1>3. proc[i].parts # D2r
    BY <1>1, StageFacts DEF At
  <1>4. Has(ctrl_queue, {"rlf"}, i) => mac_dl[i] = du_db[i]
    BY <1>3 DEF IndexInv, NotifierInv
  <1>5. part # "sched" => ~EventDue(i) /\ i \notin ues_to_rem /\ ~ReadyDue(i) /\ ~ready[i]
    BY <1>1, ZenonT(40) DEF IndexInv, ResponseInv
  <1>6. proc[i].kind \in Procedures /\ du_db[i] # None
    <2>1. ~Idling(i)
      BY DEF Idling, NoProc, At
    <2>. QED  BY <2>1 DEF IndexInv, ProcInv, Creating, SettingUp, Removing, Removals, Procedures
  <1>. QED  BY <1>1, <1>2, <1>3, <1>4, <1>5, <1>6

\* The response of the scheduler is taken.
LEMMA Answered ==
    ASSUME DuUeAssumption, DuTypeOK, NEW i \in Indexes, IndexInv(i), At(i, "sched"), ready[i],
           ready' = [ready EXCEPT ![i] = FALSE], UNCHANGED <<sched_events, ctrl_queue, ues_to_rem, erasing>>,
           ~At(i, "sched")', ~At(i, "resume")', erasing = i => proc'[i].kind \in Removals /\ proc'[i].parts = D2
    PROVE  /\ ~EventDue(i) /\ i \notin ues_to_rem
           /\ ResponseInv(i)' /\ ResumeInv(i)'
  <1>1. ResponseInv(i) /\ ResumeInv(i)
    BY DEF IndexInv
  <1>2. ~EventDue(i) /\ i \notin ues_to_rem /\ ~ReadyDue(i)
    BY <1>1, ZenonT(40) DEF ResponseInv
  <1>3. \A k, v : Expected(sched_events, i, k, v)
    BY <1>1, <1>2, UnderWay, NoneDue DEF ResponseInv, EventDue, DuTypeOK
  <1>4. ready'[i] = FALSE
    BY DEF DuTypeOK
  <1>5. ResponseInv(i)'
    BY <1>1, <1>2, <1>3, <1>4, ZenonT(40) DEF ResponseInv, EventDue, ReadyDue
  <1>6. ~Has(ctrl_queue, {"resume"}, i)
    BY UnderWay
  <1>7. ResumeInv(i)'
    BY <1>1, <1>6, ZenonT(40) DEF ResumeInv
  <1>. QED  BY <1>2, <1>5, <1>7

\* A procedure whose response has come goes on.
LEMMA PassReadyKeepsInv ==
    ASSUME DuUeAssumption, DuInv, NEW i \in Indexes, PassReady(i)
    PROVE  DuInv'
  <1>. DEFINE u == du_db[i]
              kind == proc[i].kind
  <1>1. /\ DuTypeOK /\ IndexInv(i) /\ failed = None /\ At(i, "sched") /\ ready[i] /\ Advance(i)
        /\ ready' = [ready EXCEPT ![i] = FALSE]
        /\ UNCHANGED <<du_db, mac_ul, mac_dl, sched, ues_to_rem, erasing, ctrl_queue, created, triggers, phy, notifier>>
    BY DEF PassReady, DuInv, rlf_vars, rem_vars
  <1>2. /\ kind \in Procedures /\ u # None /\ u \in Ues
        /\ Has(ctrl_queue, {"rlf"}, i) => mac_dl[i] = u
    BY <1>1, UnderWay DEF DuTypeOK
  <1>3. ~EventDue(i) /\ i \notin ues_to_rem
    BY <1>1, ZenonT(40) DEF IndexInv, ResponseInv
  <1>4. NotifierInv(i) /\ TasksInv(i) /\ (erasing = i => kind \in Removals)
    BY <1>1 DEF IndexInv, ResponseInv
  <1>5. CASE kind \in {"create", "setup"} /\ proc[i].parts = C2
    <2>1. Complete(i)
      BY <1>1, <1>5, StageFacts DEF Advance
    <2>2. PICK p : p = NoProc
      OBVIOUS
    <2>3. /\ proc' = [proc EXCEPT ![i] = p] /\ UNCHANGED <<mac_ctrl, f1ap_ues, tasks, failed, sched_events>>
          /\ known' = known \/ known' = known \union {u}
      BY <1>5, <2>1, <2>2 DEF Complete
    <2>4. p.kind = "none" /\ p.parts = <<>> /\ p \in [kind : Procedures \union {"none"}, parts : Stages] /\ proc'[i] = p
      BY <1>1, <2>2, <2>3 DEF NoProc, Stages, DuTypeOK
    <2>5. Contexts(i, u, u, u, u)
      BY <1>1, <1>3, <1>5, Where DEF IndexInv, Removals
    <2>6. ProcInv(i)'
      BY <1>1, <1>2, <2>2, <2>3, <2>4, <2>5 DEF ProcInv, Idling, Contexts
    <2>7. kind = "create" => tasks[i] = <<>>
      BY <1>1, Where DEF IndexInv, Removals
    <2>8. kind = "setup" => tasks[i] = <<>> \/ (f1ap_ues[i] = u /\ Served(tasks[i], u) /\ (HasRemoval(tasks[i]) => triggers[u] > 0))
      BY <1>4 DEF TasksInv, NoProc
    <2>9. TasksInv(i)'
      <3>1. CASE tasks[i] = <<>>
        BY <1>1, <1>2, <2>3, <3>1 DEF TasksInv
      <3>2. CASE f1ap_ues[i] = u /\ Served(tasks[i], u) /\ (HasRemoval(tasks[i]) => triggers[u] > 0)
        BY <1>1, <1>2, <2>3, <2>4, <3>2 DEF TasksInv
      <3>. QED  BY <1>5, <2>7, <2>8, <3>1, <3>2
    <2>10. ResponseInv(i)' /\ ResumeInv(i)'
      <3>1. ~At(i, "sched")' /\ ~At(i, "resume")'
        BY <2>4 DEF At
      <3>2. erasing # i
        BY <1>4, <1>5 DEF Removals
      <3>. QED  BY <1>1, <2>3, <3>1, <3>2, Answered
    <2>11. NotifierInv(i)'
      <3>1. "none" \notin Removals
        BY DEF Removals
      <3>. QED  BY <1>1, <1>2, <1>4, <2>4, <3>1 DEF NotifierInv
    <2>12. IndexInv(i)'
      BY <2>6, <2>9, <2>10, <2>11 DEF IndexInv
    <2>13. ControlOf(i)
      <3>1. proc' = [proc EXCEPT ![i] = proc'[i]] /\ proc'[i] \in [kind : Procedures \union {"none"}, parts : Stages]
        BY <2>3, <2>4
      <3>2. ready' = [ready EXCEPT ![i] = ready'[i]] /\ ready'[i] \in BOOLEAN
        BY <1>1 DEF DuTypeOK
      <3>. QED  BY <1>1, <1>2, <2>3, <3>1, <3>2 DEF ControlOf, DuTypeOK
    <2>. QED  BY <1>1, <2>3, <2>12, <2>13, ControlStep DEF DuAssertionsHold
  <1>6. CASE kind \in Removals /\ proc[i].parts = D1
    <2>1. PICK p : p = [kind |-> kind, parts |-> D2]
      OBVIOUS
    <2>2. proc' = [proc EXCEPT ![i] = p] /\ UNCHANGED <<known, mac_ctrl, f1ap_ues, tasks, failed, sched_events>>
      BY <1>1, <1>6, <2>1, StageFacts, ZenonT(40) DEF Advance, Enter
    <2>3. p.kind = kind /\ p.parts = D2 /\ p \in [kind : Procedures \union {"none"}, parts : Stages] /\ proc'[i] = p
      BY <1>1, <1>2, <2>1, <2>2 DEF Stages, DuTypeOK
    <2>4. Contexts(i, u, u, u, IF erasing = i THEN u ELSE None) /\ tasks[i] = <<>> /\ triggers[u] > 0
      BY <1>1, <1>3, <1>6, Where DEF IndexInv, Removals
    <2>5. ProcInv(i)'
      BY <1>1, <1>2, <1>6, <2>2, <2>3, <2>4 DEF ProcInv, Removing, Contexts
    <2>6. TasksInv(i)'
      BY <1>1, <1>2, <2>2, <2>4 DEF TasksInv
    <2>7. ResponseInv(i)' /\ ResumeInv(i)'
      <3>1. ~At(i, "sched")' /\ ~At(i, "resume")'
        BY <2>3, StageFacts DEF At
      <3>. QED  BY <1>1, <1>6, <2>2, <2>3, <3>1, Answered
    <2>8. NotifierInv(i)'
      BY <1>1, <1>2, <1>4, <2>3 DEF NotifierInv
    <2>9. IndexInv(i)'
      BY <2>5, <2>6, <2>7, <2>8 DEF IndexInv
    <2>10. ControlOf(i)
      <3>1. proc' = [proc EXCEPT ![i] = proc'[i]] /\ proc'[i] \in [kind : Procedures \union {"none"}, parts : Stages]
        BY <2>2, <2>3
      <3>2. ready' = [ready EXCEPT ![i] = ready'[i]] /\ ready'[i] \in BOOLEAN
        BY <1>1 DEF DuTypeOK
      <3>. QED  BY <1>1, <1>2, <2>2, <3>1, <3>2 DEF ControlOf, DuTypeOK
    <2>. QED  BY <1>1, <2>2, <2>9, <2>10, ControlStep DEF DuAssertionsHold
  <1>7. CASE kind = "setup" /\ proc[i].parts = S2
    <2>1. PICK p : p = [kind |-> kind, parts |-> S3]
      OBVIOUS
    <2>2. proc' = [proc EXCEPT ![i] = p] /\ UNCHANGED <<known, mac_ctrl, f1ap_ues, tasks, failed, sched_events>>
      BY <1>1, <1>7, <2>1, SetupFacts, ZenonT(40) DEF Advance, Enter
    <2>3. p.kind = kind /\ p.parts = S3 /\ p \in [kind : Procedures \union {"none"}, parts : Stages] /\ proc'[i] = p
      BY <1>1, <1>2, <2>1, <2>2 DEF Stages, SetupStages, DuTypeOK
    <2>4. Contexts(i, u, u, u, u)
      BY <1>1, <1>7, Where DEF IndexInv, Removals
    <2>5. ProcInv(i)'
      BY <1>1, <1>2, <1>7, <2>2, <2>3, <2>4 DEF ProcInv, SettingUp, SetupStages, Contexts
    <2>6. TasksInv(i)'
      <3>1. proc[i] # NoProc
        BY <1>7 DEF NoProc
      <3>. QED  BY <1>1, <1>2, <1>4, <1>7, <2>2, <2>3, <3>1 DEF TasksInv
    <2>7. ResponseInv(i)' /\ ResumeInv(i)'
      <3>1. ~At(i, "sched")' /\ ~At(i, "resume")'
        BY <2>3, SetupFacts DEF At
      <3>2. erasing # i
        BY <1>4, <1>7 DEF Removals
      <3>. QED  BY <1>1, <2>2, <3>1, <3>2, Answered
    <2>8. NotifierInv(i)'
      BY <1>1, <1>2, <1>4, <2>3 DEF NotifierInv
    <2>9. IndexInv(i)'
      BY <2>5, <2>6, <2>7, <2>8 DEF IndexInv
    <2>10. ControlOf(i)
      <3>1. proc' = [proc EXCEPT ![i] = proc'[i]] /\ proc'[i] \in [kind : Procedures \union {"none"}, parts : Stages]
        BY <2>2, <2>3
      <3>2. ready' = [ready EXCEPT ![i] = ready'[i]] /\ ready'[i] \in BOOLEAN
        BY <1>1 DEF DuTypeOK
      <3>. QED  BY <1>1, <1>2, <2>2, <3>1, <3>2 DEF ControlOf, DuTypeOK
    <2>. QED  BY <1>1, <2>2, <2>9, <2>10, ControlStep DEF DuAssertionsHold
  <1>. QED  BY <1>1, <1>5, <1>6, <1>7, Where DEF IndexInv

\* The delay before a removal ends.
LEMMA ReleaseTimeoutKeepsInv ==
    ASSUME DuUeAssumption, DuInv, NEW i \in Indexes, ReleaseTimeout(i)
    PROVE  DuInv'
  <1>. DEFINE u == du_db[i]
              kind == proc[i].kind
  <1>1. /\ DuTypeOK /\ IndexInv(i) /\ failed = None /\ At(i, "wait")
        /\ UNCHANGED <<du_db, mac_ul, mac_dl, sched, ues_to_rem, erasing, ready, ctrl_queue, created, triggers, phy, notifier>>
    BY DEF ReleaseTimeout, CtrlFree, DuInv, rlf_vars, rem_vars
  <1>2. /\ kind \in Removals /\ tasks[i] = <<>> /\ triggers[u] > 0 /\ u # None
        /\ proc[i].parts = W0 /\ Contexts(i, u, u, u, u)
    BY <1>1, Where DEF IndexInv
  <1>3. PICK p : p = [kind |-> kind, parts |-> D0]
    OBVIOUS
  <1>4. proc' = [proc EXCEPT ![i] = p] /\ UNCHANGED <<known, mac_ctrl, f1ap_ues, tasks, failed, sched_events>>
    <2>1. Advance(i)
      BY <1>2 DEF ReleaseTimeout
    <2>2. Tail(proc[i].parts) = D0 /\ D0 # <<>> /\ Head(D0) # "sched"
      BY <1>2, StageFacts
    <2>. QED  BY <1>3, <2>1, <2>2 DEF Advance, Enter
  <1>5. p.kind = kind /\ p.parts = D0 /\ p \in [kind : Procedures \union {"none"}, parts : Stages] /\ proc'[i] = p
    BY <1>1, <1>2, <1>3, <1>4 DEF Stages, DuTypeOK, Procedures, Removals
  <1>6. ProcInv(i)'
    BY <1>1, <1>2, <1>4, <1>5 DEF ProcInv, Removing, Contexts
  <1>7. TasksInv(i)'
    BY <1>1, <1>2, <1>4 DEF TasksInv
  <1>8. ~At(i, "sched")' /\ ~At(i, "resume")' /\ ~At(i, "sched") /\ ~At(i, "resume")
    BY <1>1, <1>5, StageFacts DEF At
  <1>9. ResponseInv(i)'
    <2>1. EventDue(i)' = EventDue(i) /\ ReadyDue(i)' = ReadyDue(i) /\ proc'[i].kind = kind
      BY <1>1, <1>4, <1>5 DEF EventDue, ReadyDue
    <2>2. ResponseInv(i)
      BY <1>1 DEF IndexInv
    <2>3. erasing # i
      BY <1>2, <2>2, StageFacts DEF ResponseInv
    <2>. QED  BY <1>1, <1>4, <1>8, <2>1, <2>2, <2>3, ZenonT(40) DEF ResponseInv
  <1>10. ResumeInv(i)'
    BY <1>1, <1>8, ZenonT(40) DEF IndexInv, ResumeInv
  <1>11. NotifierInv(i)'
    <2>1. Has(ctrl_queue, {"rlf"}, i) => mac_dl[i] = u
      BY <1>1, UnderWay
    <2>. QED  BY <1>1, <1>2, <1>5, <2>1 DEF IndexInv, NotifierInv
  <1>12. IndexInv(i)'
    BY <1>6, <1>7, <1>9, <1>10, <1>11 DEF IndexInv
  <1>13. ControlOf(i)
    <2>1. proc' = [proc EXCEPT ![i] = proc'[i]] /\ proc'[i] \in [kind : Procedures \union {"none"}, parts : Stages]
      BY <1>4, <1>5
    <2>. QED  BY <1>1, <1>4, <2>1 DEF ControlOf, DuTypeOK
  <1>. QED  BY <1>1, <1>4, <1>12, <1>13, ControlStep DEF DuAssertionsHold

\* The resumption of the procedure of index i is taken from the queue.
LEMMA Resumed ==
    ASSUME DuUeAssumption, DuTypeOK, ctrl_queue # <<>>, Head(ctrl_queue).kind = "resume", ctrl_queue' = Tail(ctrl_queue),
           NEW i \in Indexes, i = Head(ctrl_queue).ue_index, IndexInv(i),
           UNCHANGED <<du_db, mac_dl, notifier, ues_to_rem, erasing, ready>>, proc'[i].kind \in {proc[i].kind, "none"},
           \/ sched_events' = sched_events /\ ~At(i, "sched")'
           \/ /\ At(i, "sched")' /\ proc'[i].kind = proc[i].kind
              /\ sched_events' = Append(sched_events, Task(proc[i].kind, i, du_db[i])),
           ~At(i, "resume")'
    PROVE  ResponseInv(i)' /\ ResumeInv(i)' /\ NotifierInv(i)'
  <1>. DEFINE u == du_db[i]
              q == ctrl_queue
  <1>1. q \in Seq(Tasks) /\ q # <<>> /\ Head(q) \in Tasks
    BY TailFacts DEF DuTypeOK
  <1>2. /\ Matches(Head(q), {"resume"}, i) /\ ~Matches(Head(q), {"ready"}, i) /\ ~Matches(Head(q), {"rlf"}, i)
    BY DEF Matches
  <1>3. ResponseInv(i) /\ ResumeInv(i) /\ NotifierInv(i) /\ ProcInv(i)
    BY DEF IndexInv
  <1>4. /\ Has(q, {"resume"}, i) /\ ~Has(Tail(q), {"resume"}, i) /\ Once(Tail(q), {"resume"}, i)
    BY <1>1, <1>2, <1>3, TailFacts DEF ResumeInv
  <1>5. /\ Has(Tail(q), {"ready"}, i) <=> Has(q, {"ready"}, i)
        /\ Once(Tail(q), {"ready"}, i)
        /\ Has(Tail(q), {"rlf"}, i) <=> Has(q, {"rlf"}, i)
        /\ Owned(Tail(q), {"rlf"}, i, u)
        /\ Covered(q, i) => ~Has(q, {"rlf"}, i)
    BY <1>1, <1>2, <1>3, TailFacts DEF ResponseInv, ResumeInv, NotifierInv
  <1>6. At(i, "resume") /\ ~At(i, "sched")
    <2>1. At(i, "resume")
      BY <1>3, <1>4, ZenonT(40) DEF ResumeInv
    <2>. QED  BY <2>1 DEF At
  <1>7. ~EventDue(i) /\ i \notin ues_to_rem /\ erasing # i /\ ~ReadyDue(i) /\ ~ready[i]
    <2>1. ~EventDue(i) /\ i \notin ues_to_rem /\ ~ReadyDue(i) /\ ~ready[i]
      BY <1>3, <1>6, ZenonT(40) DEF ResponseInv
    <2>2. proc[i].parts \notin {D1, D2}
      BY <1>6, StageFacts DEF At
    <2>. QED  BY <1>3, <2>1, <2>2, ZenonT(40) DEF ResponseInv
  <1>8. u # None /\ u \in Ues /\ proc[i].kind \in Procedures
    <2>1. u # None /\ proc[i].kind \in Procedures
      BY <1>3, <1>6, Where DEF Procedures, Removals
    <2>. QED  BY <2>1 DEF DuTypeOK
  <1>9. ResumeInv(i)'
    BY <1>4, ZenonT(40) DEF ResumeInv
  <1>10. NotifierInv(i)'
    <2>1. Has(q, {"rlf"}, i) => mac_dl[i] = u
      BY <1>3, <1>5, ZenonT(40) DEF NotifierInv
    <2>2. "none" \notin Removals
      BY DEF Removals
    <2>. QED  BY <1>3, <1>5, <1>8, <2>1, <2>2 DEF NotifierInv
  <1>11. ~ReadyDue(i)'
    BY <1>5, <1>7, ZenonT(40) DEF ReadyDue
  <1>12. CASE sched_events' = sched_events /\ ~At(i, "sched")'
    <2>1. \A k, v : Expected(sched_events, i, k, v)
      BY <1>3, <1>7, <1>8, NoneDue DEF ResponseInv, EventDue, DuTypeOK
    <2>2. ResponseInv(i)'
      BY <1>3, <1>5, <1>7, <1>11, <1>12, <2>1, ZenonT(40) DEF ResponseInv, EventDue
    <2>. QED  BY <1>9, <1>10, <2>2
  <1>13. CASE /\ At(i, "sched")' /\ proc'[i].kind = proc[i].kind
              /\ sched_events' = Append(sched_events, Task(proc[i].kind, i, du_db[i]))
    <2>1. PICK t : t = Task(proc[i].kind, i, u)
      OBVIOUS
    <2>2. t \in Tasks /\ Matches(t, Procedures, i)
      BY <1>8, <2>1 DEF Task, Tasks, Matches
    <2>3. sched_events' = Append(sched_events, t) /\ sched_events \in Seq(Tasks)
      BY <1>13, <2>1 DEF DuTypeOK
    <2>4. /\ Has(sched_events', Procedures, i) /\ Once(sched_events', Procedures, i)
          /\ Expected(sched_events', i, proc[i].kind, u)
      <3>1. /\ ~Has(sched_events, Procedures, i) /\ Once(sched_events, Procedures, i)
            /\ Expected(sched_events, i, proc[i].kind, u)
        BY <1>3, <1>7, ZenonT(40) DEF ResponseInv, EventDue
      <3>. QED  BY <2>1, <2>2, <2>3, <3>1, AppendFacts, ZenonT(40)
    <2>5. ResponseInv(i)'
      BY <1>3, <1>5, <1>7, <1>11, <1>13, <2>4, ZenonT(40) DEF ResponseInv, EventDue
    <2>. QED  BY <1>9, <1>10, <2>5
  <1>. QED  BY <1>12, <1>13

\* A procedure that worked on another executor is back on the control thread.
LEMMA RunResumeKeepsInv ==
    ASSUME DuUeAssumption, DuInv, RunResume
    PROVE  DuInv'
  <1>1. PICK i : i = Head(ctrl_queue).ue_index
    OBVIOUS
  <1>. DEFINE u == du_db[i]
              kind == proc[i].kind
  <1>2. /\ DuTypeOK /\ failed = None /\ ctrl_queue # <<>> /\ Head(ctrl_queue).kind = "resume" /\ ctrl_queue' = Tail(ctrl_queue)
        /\ Advance(i)
        /\ UNCHANGED <<du_db, mac_ul, mac_dl, sched, ues_to_rem, erasing, ready, created, triggers, phy, notifier>>
    BY <1>1 DEF RunResume, Popped, CtrlFree, DuInv, rlf_vars, rem_vars
  <1>3. ctrl_queue \in Seq(Tasks) /\ Head(ctrl_queue) \in Tasks /\ i \in Indexes
    <2>1. ctrl_queue \in Seq(Tasks)
      BY <1>2 DEF DuTypeOK
    <2>2. Head(ctrl_queue) \in Tasks
      BY <1>2, <2>1, TailFacts
    <2>. QED  BY <1>1, <2>1, <2>2 DEF Tasks
  <1>4. IndexInv(i) /\ ProcInv(i)
    BY <1>3 DEF DuInv, IndexInv
  <1>5. At(i, "resume")
    <2>1. Matches(Head(ctrl_queue), {"resume"}, i)
      BY <1>1, <1>2 DEF Matches
    <2>2. Has(ctrl_queue, {"resume"}, i)
      BY <1>2, <1>3, <2>1, TailFacts
    <2>. QED  BY <1>4, <2>2, ZenonT(40) DEF IndexInv, ResumeInv
  <1>6. /\ u # None /\ u \in Ues /\ kind \in Procedures
        /\ kind \in {"create", "delete", "release"} => tasks[i] = <<>>
        /\ kind = "create" => u \notin known
        /\ kind \in Removals => triggers[u] > 0
    <2>1. /\ u # None /\ kind \in Procedures
          /\ kind \in {"create", "delete", "release"} => tasks[i] = <<>>
          /\ kind = "create" => u \notin known
          /\ kind \in Removals => triggers[u] > 0
      BY <1>3, <1>4, <1>5, Where DEF Procedures, Removals
    <2>. QED  BY <1>2, <1>3, <2>1 DEF DuTypeOK
  <1>7. TasksInv(i)
    BY <1>4 DEF IndexInv
  <1>8. ASSUME NEW rest \in {C1, C2, S1, S2, S4, D1, D3}, rest = Tail(proc[i].parts),
               \/ kind = "create" /\ rest = C1 /\ Contexts(i, u, u, None, None)
               \/ kind = "create" /\ rest = C2 /\ Contexts(i, u, u, u, None)
               \/ kind = "setup" /\ rest \in {C1, C2, S1, S2, S4} /\ Contexts(i, u, u, u, u)
               \/ kind \in Removals /\ rest = D1 /\ Contexts(i, u, u, u, u)
               \/ kind \in Removals /\ rest = D3 /\ Contexts(i, u, u, None, None)
        PROVE  DuInv'
    <2>1. PICK p : p = [kind |-> kind, parts |-> rest]
      OBVIOUS
    <2>2. rest # <<>> /\ Head(rest) # "resume" /\ (rest \in {C2, D1} => Head(rest) = "sched")
      BY StageFacts, SetupFacts, SMTT(60)
    <2>3. proc' = [proc EXCEPT ![i] = p] /\ UNCHANGED <<known, mac_ctrl, f1ap_ues, tasks, failed>>
      BY <1>2, <1>8, <2>1, <2>2 DEF Advance, Enter
    <2>4. \/ Head(rest) # "sched" /\ sched_events' = sched_events
          \/ Head(rest) = "sched" /\ sched_events' = Append(sched_events, Task(kind, i, u))
      BY <1>2, <1>8, <2>2 DEF Advance, Enter
    <2>5. p.kind = kind /\ p.parts = rest /\ p \in [kind : Procedures \union {"none"}, parts : Stages] /\ proc'[i] = p
      BY <1>2, <1>3, <1>6, <2>1, <2>3 DEF Stages, SetupStages, DuTypeOK
    <2>6. /\ ~At(i, "resume")' /\ (At(i, "sched")' <=> Head(rest) = "sched")
      BY <2>2, <2>5 DEF At
    <2>7. ResponseInv(i)' /\ ResumeInv(i)' /\ NotifierInv(i)'
      BY <1>1, <1>2, <1>3, <1>4, <2>4, <2>5, <2>6, Resumed
    <2>8. Head(rest) = "sched" => EventDue(i)'
      <3>1. PICK t : t = Task(kind, i, u)
        OBVIOUS
      <3>2. t \in Tasks /\ Matches(t, Procedures, i)
        BY <1>3, <1>6, <3>1 DEF Task, Tasks, Matches
      <3>3. sched_events \in Seq(Tasks)
        BY <1>2 DEF DuTypeOK
      <3>4. Has(Append(sched_events, t), Procedures, i)
        BY <3>2, <3>3, AppendFacts
      <3>. QED  BY <2>4, <3>1, <3>4, ZenonT(40) DEF EventDue
    <2>9. ProcInv(i)'
      <3>1. \A a, b, c, d : Contexts(i, a, b, c, d)' <=> Contexts(i, a, b, c, d)
        BY <1>2, <2>3 DEF Contexts
      <3>2. CASE kind = "create"
        <4>1. Creating(i)'
          BY <1>2, <1>6, <1>8, <2>2, <2>3, <2>5, <2>8, <3>1, <3>2 DEF Creating, Removals
        <4>. QED  BY <4>1 DEF ProcInv
      <3>3. CASE kind = "setup"
        <4>1. SettingUp(i)'
          BY <1>2, <1>6, <1>8, <2>5, <3>1, <3>3 DEF SettingUp, SetupStages, Removals
        <4>. QED  BY <4>1 DEF ProcInv
      <3>4. CASE kind \in Removals
        <4>1. Removing(i)'
          BY <1>2, <1>6, <1>8, <2>2, <2>3, <2>5, <2>8, <3>1, <3>4 DEF Removing, Removals
        <4>. QED  BY <4>1 DEF ProcInv
      <3>. QED  BY <1>8, <3>2, <3>3, <3>4
    <2>10. TasksInv(i)'
      <3>1. CASE tasks[i] = <<>>
        BY <1>2, <1>6, <2>3, <3>1 DEF TasksInv
      <3>2. CASE tasks[i] # <<>>
        <4>1. kind = "setup" /\ proc[i] # NoProc
          BY <1>6, <3>2 DEF Procedures, NoProc
        <4>. QED  BY <1>2, <1>7, <2>3, <2>5, <3>2, <4>1 DEF TasksInv
      <3>. QED  BY <3>1, <3>2
    <2>11. IndexInv(i)'
      BY <2>7, <2>9, <2>10 DEF IndexInv
    <2>12. ControlOf(i)
      <3>1. proc' = [proc EXCEPT ![i] = proc'[i]] /\ proc'[i] \in [kind : Procedures \union {"none"}, parts : Stages]
        BY <2>3, <2>5
      <3>2. \/ sched_events' = sched_events
            \/ \E e \in Tasks : e.ue_index = i /\ sched_events' = Append(sched_events, e)
        <4>1. Task(kind, i, u) \in Tasks /\ Task(kind, i, u).ue_index = i
          BY <1>3, <1>6 DEF Task, Tasks
        <4>. QED  BY <2>4, <4>1, ZenonT(40)
      <3>. QED  BY <1>1, <1>2, <1>3, <2>3, <3>1, <3>2 DEF ControlOf, DuTypeOK
    <2>. QED  BY <1>2, <1>3, <2>3, <2>11, <2>12, ControlStep DEF DuAssertionsHold
  <1>9. CASE kind \in Removals /\ proc[i].parts = D3r /\ Contexts(i, u, None, None, None)
    <2>1. Complete(i)
      BY <1>2, <1>9, StageFacts DEF Advance
    <2>2. PICK p : p = NoProc
      OBVIOUS
    <2>3. kind # "create" /\ kind # "setup" /\ f1ap_ues[i] = u /\ mac_ul[i] = None /\ mac_dl[i] = None /\ sched[i] = None
      BY <1>9 DEF Removals, Contexts
    <2>4. /\ proc' = [proc EXCEPT ![i] = p] /\ UNCHANGED <<known, sched_events>>
          /\ mac_ctrl' = [mac_ctrl EXCEPT ![i] = None] /\ f1ap_ues' = [f1ap_ues EXCEPT ![i] = None]
          /\ failed' \in {None, "erased F1AP UE"}
      BY <1>2, <1>6, <2>1, <2>2, <2>3 DEF Complete
    <2>5. PICK t : t = <<Task("erase", i, u)>>
      OBVIOUS
    <2>6. tasks' = [tasks EXCEPT ![i] = t] /\ t \in Seq(Tasks)
      <3>1. tasks' = [tasks EXCEPT ![i] = Append(tasks[i], Task("erase", i, u))]
        BY <2>1, <2>3 DEF Complete
      <3>2. tasks[i] = <<>>
        BY <1>6, <1>9 DEF Removals
      <3>3. PICK e : e = Task("erase", i, u)
        OBVIOUS
      <3>4. Append(tasks[i], e) = <<e>> /\ e \in Tasks
        BY <1>3, <1>6, <3>2, <3>3 DEF Task, Tasks
      <3>5. <<e>> \in Seq(Tasks)
        BY <3>4
      <3>. QED  BY <2>5, <3>1, <3>3, <3>4, <3>5, ZenonT(40)
    <2>7. p.kind = "none" /\ p.parts = <<>> /\ p \in [kind : Procedures \union {"none"}, parts : Stages] /\ proc'[i] = p
      BY <1>2, <1>3, <2>2, <2>4 DEF NoProc, Stages, DuTypeOK
    <2>8. mac_ctrl'[i] = None /\ f1ap_ues'[i] = None /\ tasks'[i] = t
      BY <1>2, <1>3, <2>4, <2>6 DEF DuTypeOK
    <2>9. ProcInv(i)'
      BY <1>2, <2>2, <2>3, <2>7, <2>8 DEF ProcInv, Idling, Contexts
    <2>10. TasksInv(i)'
      BY <1>2, <1>6, <2>2, <2>5, <2>7, <2>8 DEF TasksInv
    <2>11. ResponseInv(i)' /\ ResumeInv(i)' /\ NotifierInv(i)'
      <3>1. ~At(i, "sched")' /\ ~At(i, "resume")'
        BY <2>7 DEF At
      <3>. QED  BY <1>1, <1>2, <1>3, <1>4, <2>4, <2>7, <3>1, Resumed
    <2>12. IndexInv(i)'
      BY <2>9, <2>10, <2>11 DEF IndexInv
    <2>13. ControlOf(i)
      <3>1. proc' = [proc EXCEPT ![i] = proc'[i]] /\ proc'[i] \in [kind : Procedures \union {"none"}, parts : Stages]
        BY <2>4, <2>7
      <3>2. tasks' = [tasks EXCEPT ![i] = tasks'[i]] /\ tasks'[i] \in Seq(Tasks)
        BY <2>6, <2>8, ZenonT(40)
      <3>. QED  BY <1>1, <1>2, <1>3, <2>4, <2>8, <3>1, <3>2 DEF ControlOf, DuTypeOK
    <2>. QED  BY <1>3, <2>4, <2>12, <2>13, ControlStep DEF DuAssertionsHold, Unguarded
  <1>11. CASE kind = "setup" /\ proc[i].parts = D3r /\ Contexts(i, u, u, u, u)
    <2>1. Complete(i)
      BY <1>2, <1>11, StageFacts DEF Advance
    <2>2. PICK p : p = NoProc
      OBVIOUS
    <2>3. proc' = [proc EXCEPT ![i] = p] /\ UNCHANGED <<known, mac_ctrl, f1ap_ues, tasks, failed, sched_events>>
      BY <1>11, <2>1, <2>2 DEF Complete
    <2>4. p.kind = "none" /\ p.parts = <<>> /\ p \in [kind : Procedures \union {"none"}, parts : Stages] /\ proc'[i] = p
      BY <1>2, <1>3, <2>2, <2>3 DEF NoProc, Stages, DuTypeOK
    <2>5. ProcInv(i)'
      BY <1>2, <1>6, <1>11, <2>2, <2>3, <2>4 DEF ProcInv, Idling, Contexts
    <2>6. TasksInv(i)'
      <3>1. proc[i] # NoProc
        BY <1>11 DEF NoProc
      <3>. QED  BY <1>2, <1>6, <1>7, <1>11, <2>3, <2>4, <3>1 DEF TasksInv
    <2>7. ResponseInv(i)' /\ ResumeInv(i)' /\ NotifierInv(i)'
      <3>1. ~At(i, "sched")' /\ ~At(i, "resume")'
        BY <2>4 DEF At
      <3>. QED  BY <1>1, <1>2, <1>3, <1>4, <2>3, <2>4, <3>1, Resumed
    <2>8. IndexInv(i)'
      BY <2>5, <2>6, <2>7 DEF IndexInv
    <2>9. ControlOf(i)
      <3>1. proc' = [proc EXCEPT ![i] = proc'[i]] /\ proc'[i] \in [kind : Procedures \union {"none"}, parts : Stages]
        BY <2>3, <2>4
      <3>. QED  BY <1>1, <1>2, <1>3, <2>3, <3>1 DEF ControlOf, DuTypeOK
    <2>. QED  BY <1>2, <1>3, <2>3, <2>8, <2>9, ControlStep DEF DuAssertionsHold
  <1>10. \/ kind = "create" /\ proc[i].parts = C0r /\ Contexts(i, u, u, None, None)
         \/ kind = "create" /\ proc[i].parts = C1r /\ Contexts(i, u, u, u, None)
         \/ kind = "setup" /\ proc[i].parts \in {C0r, C1r, S0r, S1r, S3r, D3r} /\ Contexts(i, u, u, u, u)
         \/ kind \in Removals /\ proc[i].parts = D0r /\ Contexts(i, u, u, u, u)
         \/ kind \in Removals /\ proc[i].parts = D2r /\ Contexts(i, u, u, None, None)
         \/ kind \in Removals /\ proc[i].parts = D3r /\ Contexts(i, u, None, None, None)
    BY <1>3, <1>4, <1>5, Where
  <1>. QED  BY <1>8, <1>9, <1>10, <1>11, StageFacts, SetupFacts, ZenonT(60)

\* The task by which the scheduler's response reaches the control thread.
LEMMA RunReadyKeepsInv ==
    ASSUME DuUeAssumption, DuInv, RunReady
    PROVE  DuInv'
  <1>1. PICK i : i = Head(ctrl_queue).ue_index
    OBVIOUS
  <1>2. /\ DuTypeOK /\ failed = None /\ ctrl_queue # <<>> /\ Head(ctrl_queue).kind = "ready" /\ ctrl_queue' = Tail(ctrl_queue)
        /\ ready' = [ready EXCEPT ![i] = TRUE]
        /\ UNCHANGED <<du_db, f1ap_ues, mac_ctrl, mac_ul, mac_dl, sched, ues_to_rem, erasing, sched_events, tasks, proc,
                       created, known, triggers, phy, notifier, failed>>
    BY <1>1 DEF RunReady, Popped, CtrlFree, DuInv, rlf_vars, db_vars, rem_vars, cu_vars
  <1>3. ctrl_queue \in Seq(Tasks) /\ Head(ctrl_queue) \in Tasks /\ i \in Indexes
    <2>1. ctrl_queue \in Seq(Tasks)
      BY <1>2 DEF DuTypeOK
    <2>2. Head(ctrl_queue) \in Tasks
      BY <1>2, <2>1, TailFacts
    <2>. QED  BY <1>1, <2>1, <2>2 DEF Tasks
  <1>4. ProcInv(i) /\ TasksInv(i) /\ ResponseInv(i) /\ ResumeInv(i) /\ NotifierInv(i)
    BY <1>3 DEF DuInv, IndexInv
  <1>5. Matches(Head(ctrl_queue), {"ready"}, i) /\ ~Matches(Head(ctrl_queue), {"resume"}, i) /\ ~Matches(Head(ctrl_queue), {"rlf"}, i)
    BY <1>1, <1>2 DEF Matches
  <1>6. /\ Has(ctrl_queue, {"ready"}, i) /\ ~Has(ctrl_queue', {"ready"}, i) /\ Once(ctrl_queue', {"ready"}, i)
        /\ Has(ctrl_queue', {"resume"}, i) <=> Has(ctrl_queue, {"resume"}, i)
        /\ Once(ctrl_queue', {"resume"}, i)
        /\ Has(ctrl_queue', {"rlf"}, i) <=> Has(ctrl_queue, {"rlf"}, i)
        /\ Owned(ctrl_queue', {"rlf"}, i, du_db[i])
        /\ Covered(ctrl_queue, i) => Covered(ctrl_queue', i)
    BY <1>2, <1>3, <1>4, <1>5, TailFacts DEF ResponseInv, ResumeInv, NotifierInv
  <1>7. ready'[i] = TRUE
    BY <1>2, <1>3 DEF DuTypeOK
  <1>8. ResponseInv(i)'
    <2>1. ReadyDue(i) /\ ~ReadyDue(i)' /\ (EventDue(i)' <=> EventDue(i)) /\ (At(i, "sched")' <=> At(i, "sched"))
      BY <1>2, <1>6 DEF ReadyDue, EventDue, At
    <2>. QED  BY <1>2, <1>4, <1>6, <1>7, <2>1, ZenonT(40) DEF ResponseInv
  <1>9. ResumeInv(i)'
    BY <1>2, <1>4, <1>6 DEF ResumeInv, At
  <1>10. NotifierInv(i)'
    BY <1>2, <1>4, <1>6 DEF NotifierInv
  <1>11. ProcInv(i)' /\ TasksInv(i)'
    <2>1. EventDue(i)' <=> EventDue(i)
      BY <1>2 DEF EventDue
    <2>2. TasksInv(i)'
      BY <1>2, <1>4 DEF TasksInv
    <2>3. Idling(i) => Idling(i)'
      BY <1>2 DEF Idling, Contexts
    <2>4. Creating(i) => Creating(i)'
      BY <1>2, <2>1 DEF Creating, Contexts
    <2>5. SettingUp(i) => SettingUp(i)'
      BY <1>2 DEF SettingUp, Contexts
    <2>6. Removing(i) => Removing(i)'
      BY <1>2, <2>1 DEF Removing, Contexts
    <2>. QED  BY <1>4, <2>2, <2>3, <2>4, <2>5, <2>6 DEF ProcInv
  <1>12. IndexInv(i)'
    BY <1>8, <1>9, <1>10, <1>11 DEF IndexInv
  <1>13. ControlOf(i)
    <2>1. ready' = [ready EXCEPT ![i] = ready'[i]] /\ ready'[i] \in BOOLEAN
      BY <1>2, <1>7
    <2>. QED  BY <1>1, <1>2, <1>3, <2>1 DEF ControlOf, DuTypeOK
  <1>. QED  BY <1>2, <1>3, <1>12, <1>13, ControlStep DEF DuAssertionsHold

\* The control thread runs a task of on_rlf_detected and forwards the failure to
\* the CU.
LEMMA RunRlfKeepsInv ==
    ASSUME DuUeAssumption, DuInv, RunRlf
    PROVE  DuInv'
  <1>1. PICK i : i = Head(ctrl_queue).ue_index
    OBVIOUS
  <1>2. /\ DuTypeOK /\ failed = None /\ ctrl_queue # <<>> /\ Head(ctrl_queue).kind = "rlf" /\ ctrl_queue' = Tail(ctrl_queue)
        /\ failed' = IF du_db[i] # None /\ f1ap_ues[i] = None THEN "release request for non-existent UE" ELSE failed
        /\ UNCHANGED <<du_db, f1ap_ues, mac_ctrl, mac_ul, mac_dl, sched, ues_to_rem, erasing, sched_events, ready, tasks, proc,
                       created, known, triggers, phy, notifier>>
    BY <1>1 DEF RunRlf, Popped, CtrlFree, DuInv, rlf_vars, db_vars, rem_vars, cu_vars
  <1>3. ctrl_queue \in Seq(Tasks) /\ Head(ctrl_queue) \in Tasks /\ i \in Indexes
    <2>1. ctrl_queue \in Seq(Tasks)
      BY <1>2 DEF DuTypeOK
    <2>2. Head(ctrl_queue) \in Tasks
      BY <1>2, <2>1, TailFacts
    <2>. QED  BY <1>1, <2>1, <2>2 DEF Tasks
  <1>4. ProcInv(i) /\ TasksInv(i) /\ ResponseInv(i) /\ ResumeInv(i) /\ NotifierInv(i)
    BY <1>3 DEF DuInv, IndexInv
  <1>5. Matches(Head(ctrl_queue), {"rlf"}, i) /\ ~Matches(Head(ctrl_queue), {"resume"}, i) /\ ~Matches(Head(ctrl_queue), {"ready"}, i)
    BY <1>1, <1>2 DEF Matches
  <1>6. /\ Has(ctrl_queue, {"rlf"}, i)
        /\ Has(ctrl_queue', {"ready"}, i) <=> Has(ctrl_queue, {"ready"}, i)
        /\ Once(ctrl_queue', {"ready"}, i)
        /\ Has(ctrl_queue', {"resume"}, i) <=> Has(ctrl_queue, {"resume"}, i)
        /\ Once(ctrl_queue', {"resume"}, i)
        /\ Owned(ctrl_queue', {"rlf"}, i, du_db[i])
        /\ Covered(ctrl_queue, i) => Covered(ctrl_queue', i)
    BY <1>2, <1>3, <1>4, <1>5, TailFacts DEF ResponseInv, ResumeInv, NotifierInv
  <1>7. f1ap_ues[i] # None
    <2>1. CASE mac_dl[i] = du_db[i]
      BY <1>3, <1>4, <1>6, <2>1, Nested DEF NotifierInv
    <2>2. CASE proc[i].parts = D2r
      <3>1. At(i, "resume")
        BY <2>2, StageFacts DEF At
      <3>. QED  BY <1>3, <1>4, <3>1, Where DEF Contexts
    <2>. QED  BY <1>4, <1>6, <2>1, <2>2 DEF NotifierInv
  <1>8. failed' = None
    BY <1>2, <1>7
  <1>9. ResponseInv(i)'
    <2>1. (ReadyDue(i)' <=> ReadyDue(i)) /\ (EventDue(i)' <=> EventDue(i)) /\ (At(i, "sched")' <=> At(i, "sched"))
      BY <1>2, <1>6 DEF ReadyDue, EventDue, At
    <2>. QED  BY <1>2, <1>4, <1>6, <2>1, ZenonT(40) DEF ResponseInv
  <1>10. ResumeInv(i)'
    BY <1>2, <1>4, <1>6 DEF ResumeInv, At
  <1>11. NotifierInv(i)'
    BY <1>2, <1>4, <1>6 DEF NotifierInv
  <1>12. ProcInv(i)' /\ TasksInv(i)'
    <2>1. EventDue(i)' <=> EventDue(i)
      BY <1>2 DEF EventDue
    <2>2. TasksInv(i)'
      BY <1>2, <1>4 DEF TasksInv
    <2>3. Idling(i) => Idling(i)'
      BY <1>2 DEF Idling, Contexts
    <2>4. Creating(i) => Creating(i)'
      BY <1>2, <2>1 DEF Creating, Contexts
    <2>5. SettingUp(i) => SettingUp(i)'
      BY <1>2 DEF SettingUp, Contexts
    <2>6. Removing(i) => Removing(i)'
      BY <1>2, <2>1 DEF Removing, Contexts
    <2>. QED  BY <1>4, <2>2, <2>3, <2>4, <2>5, <2>6 DEF ProcInv
  <1>13. IndexInv(i)'
    BY <1>9, <1>10, <1>11, <1>12 DEF IndexInv
  <1>14. ControlOf(i)
    BY <1>1, <1>2, <1>3 DEF ControlOf, DuTypeOK
  <1>. QED  BY <1>3, <1>8, <1>13, <1>14, ControlStep DEF DuAssertionsHold

-----------------------------------------------------------------------------
(* The steps of the other executors *)

\* A step of a MAC or UE executor for index i.
ExecutorOf(i) ==
    /\ mac_ul' = [mac_ul EXCEPT ![i] = mac_ul'[i]] /\ mac_ul'[i] \in Ues \union {None}
    /\ mac_dl' = [mac_dl EXCEPT ![i] = mac_dl'[i]] /\ mac_dl'[i] \in Ues \union {None}
    /\ notifier' = [notifier EXCEPT ![i] = notifier'[i]] /\ notifier'[i] \in Ues \union {None, notifier[i]}
    /\ proc' = [proc EXCEPT ![i] = proc'[i]] /\ proc'[i] \in [kind : Procedures \union {"none"}, parts : Stages]
    /\ ctrl_queue' = Append(ctrl_queue, Task("resume", i, du_db[i]))
    /\ UNCHANGED <<du_db, f1ap_ues, mac_ctrl, sched, ues_to_rem, erasing, sched_events, ready, tasks, created, known,
                   triggers, phy>>

\* It keeps the invariant when it keeps what is true of the index.
LEMMA ExecutorStep ==
    ASSUME DuUeAssumption, DuInv, NEW i \in Indexes, du_db[i] # None, ExecutorOf(i), failed' = None, IndexInv(i)'
    PROVE  DuInv'
  <1>1. DuTypeOK /\ UesDistinct /\ PhyInv
    BY DEF DuInv
  <1>2. PICK t : t = Task("resume", i, du_db[i])
    OBVIOUS
  <1>3. t \in Tasks /\ t.ue_index = i /\ ctrl_queue' = Append(ctrl_queue, t)
    BY <1>1, <1>2 DEF Task, Tasks, DuTypeOK, ExecutorOf
  <1>4. DuTypeOK'
    <2>1. mac_ul' \in [Indexes -> Ues \union {None}] /\ mac_dl' \in [Indexes -> Ues \union {None}]
      BY <1>1, ZenonT(60) DEF DuTypeOK, ExecutorOf
    <2>2. notifier' \in [Indexes -> Ues \union {None, Uninitialised}]
      <3>1. notifier \in [Indexes -> Ues \union {None, Uninitialised}]
        BY <1>1 DEF DuTypeOK
      <3>2. notifier'[i] \in Ues \union {None, Uninitialised}
        BY <3>1 DEF ExecutorOf
      <3>. QED  BY <3>1, <3>2 DEF ExecutorOf
    <2>3. proc' \in [Indexes -> [kind : Procedures \union {"none"}, parts : Stages]]
      <3>1. proc \in [Indexes -> [kind : Procedures \union {"none"}, parts : Stages]]
        BY <1>1 DEF DuTypeOK
      <3>. QED  BY <3>1 DEF ExecutorOf
    <2>4. ctrl_queue' \in Seq(Tasks)
      <3>1. ctrl_queue \in Seq(Tasks)
        BY <1>1 DEF DuTypeOK
      <3>. QED  BY <1>3, <3>1, AppendFacts
    <2>. QED  BY <1>1, <2>1, <2>2, <2>3, <2>4 DEF DuTypeOK, ExecutorOf
  <1>5. UesDistinct'
    BY <1>1 DEF UesDistinct, ExecutorOf
  <1>6. PhyInv'
    <2>1. \A j \in Indexes : notifier[j] # Uninitialised => notifier'[j] # Uninitialised
      <3>1. notifier'[i] \in Ues \union {None, notifier[i]} /\ \A j \in Indexes : j # i => notifier'[j] = notifier[j]
        BY <1>1 DEF ExecutorOf, DuTypeOK
      <3>. QED  BY <3>1 DEF DuUeAssumption
    <2>2. phy' = phy
      BY DEF ExecutorOf
    <2>. QED  BY <1>1, <2>1, <2>2 DEF PhyInv
  <1>7. ASSUME NEW j \in Indexes \ {i}
        PROVE  Untouched(j)
    <2>1. QueueStep(ctrl_queue, ctrl_queue', j)
      BY <1>3, <1>7 DEF QueueStep
    <2>2. QueueStep(sched_events, sched_events', j)
      BY DEF QueueStep, ExecutorOf
    <2>. QED  BY <1>1, <1>7, <2>1, <2>2 DEF Untouched, DuTypeOK, ExecutorOf
  <1>. QED  BY <1>4, <1>5, <1>6, <1>7, OneIndex DEF DuAssertionsHold

\* The part is done and the resumption queued.
LEMMA OffloadedFacts ==
    ASSUME DuUeAssumption, DuInv, NEW i \in Indexes, NEW part \in {"ue", "ul", "dl"}, Offloaded(i, part),
           UNCHANGED <<du_db, sched_events, ues_to_rem, erasing, ready>>, erasing # i,
           NEW r \in Stages, r = <<"resume">> \o Tail(proc[i].parts), r # <<>>, Head(r) = "resume"
    PROVE  /\ du_db[i] # None /\ du_db[i] \in Ues
           /\ proc' = [proc EXCEPT ![i] = proc'[i]] /\ proc'[i] \in [kind : Procedures \union {"none"}, parts : Stages]
           /\ proc'[i].kind = proc[i].kind /\ proc'[i].parts = r /\ proc[i].kind \in Procedures
           /\ ctrl_queue' = Append(ctrl_queue, Task("resume", i, du_db[i]))
           /\ ResponseInv(i)' /\ ResumeInv(i)'
           /\ Has(ctrl_queue', {"rlf"}, i) => mac_dl[i] = du_db[i]
           /\ Owned(ctrl_queue', {"rlf"}, i, du_db[i]) /\ Covered(ctrl_queue', i)
  <1>. DEFINE u == du_db[i]
              kind == proc[i].kind
  <1>1. DuTypeOK /\ IndexInv(i) /\ ResponseInv(i) /\ ResumeInv(i) /\ NotifierInv(i)
    BY DEF DuInv, IndexInv
  <1>2. At(i, part) /\ ctrl_queue' = Append(ctrl_queue, Task("resume", i, u))
    BY DEF Offloaded, Defer
  <1>3. /\ kind \in Procedures /\ u # None /\ ~Has(ctrl_queue, {"resume"}, i)
        /\ Has(ctrl_queue, {"rlf"}, i) => mac_dl[i] = u
        /\ ~EventDue(i) /\ i \notin ues_to_rem /\ ~ReadyDue(i) /\ ~ready[i]
    BY <1>1, <1>2, UnderWay
  <1>4. u \in Ues
    BY <1>1, <1>3 DEF DuTypeOK
  <1>5. PICK p : p = [proc[i] EXCEPT !.parts = r]
    OBVIOUS
  <1>6. proc' = [proc EXCEPT ![i] = p]
    BY <1>5 DEF Offloaded
  <1>7. proc[i] \in [kind : Procedures \union {"none"}, parts : Stages]
    BY <1>1 DEF DuTypeOK
  <1>8. p.kind = kind /\ p.parts = r /\ p \in [kind : Procedures \union {"none"}, parts : Stages]
    BY <1>5, <1>7
  <1>9. proc'[i] = p
    BY <1>1, <1>6 DEF DuTypeOK
  <1>10. PICK t : t = Task("resume", i, u)
    OBVIOUS
  <1>11. /\ t \in Tasks /\ Matches(t, {"resume"}, i) /\ ~Matches(t, {"ready"}, i) /\ ~Matches(t, {"rlf"}, i)
    BY <1>4, <1>10 DEF Task, Tasks, Matches
  <1>12. ctrl_queue' = Append(ctrl_queue, t) /\ ctrl_queue \in Seq(Tasks)
    BY <1>1, <1>2, <1>10 DEF DuTypeOK
  <1>13. /\ Has(ctrl_queue', {"resume"}, i) /\ Once(ctrl_queue', {"resume"}, i)
         /\ Has(ctrl_queue', {"ready"}, i) <=> Has(ctrl_queue, {"ready"}, i)
         /\ Once(ctrl_queue', {"ready"}, i)
         /\ Has(ctrl_queue', {"rlf"}, i) <=> Has(ctrl_queue, {"rlf"}, i)
         /\ Owned(ctrl_queue', {"rlf"}, i, u) /\ Covered(ctrl_queue', i)
    BY <1>1, <1>3, <1>11, <1>12, AppendFacts DEF ResponseInv, ResumeInv, NotifierInv
  <1>14. At(i, "resume")' /\ ~At(i, "sched")' /\ proc'[i].kind = kind
    BY <1>8, <1>9 DEF At
  <1>15. ResumeInv(i)'
    BY <1>13, <1>14, ZenonT(40) DEF ResumeInv
  <1>16. ResponseInv(i)'
    <2>1. ~EventDue(i)' /\ ~ReadyDue(i)'
      BY <1>3, <1>13, ZenonT(40) DEF EventDue, ReadyDue
    <2>. QED  BY <1>1, <1>3, <1>13, <1>14, <2>1, ZenonT(40) DEF ResponseInv
  <1>. QED  BY <1>2, <1>3, <1>4, <1>6, <1>8, <1>9, <1>13, <1>15, <1>16

\* The UE executor stops the bearers of a UE that is removed.
LEMMA UeStepKeepsInv ==
    ASSUME DuUeAssumption, DuInv, NEW i \in Indexes, UeStep(i)
    PROVE  DuInv'
  <1>. DEFINE u == du_db[i]
  <1>1. /\ DuTypeOK /\ IndexInv(i) /\ ProcInv(i) /\ NotifierInv(i) /\ Offloaded(i, "ue") /\ At(i, "ue") /\ failed' = None
        /\ UNCHANGED <<du_db, f1ap_ues, mac_ctrl, mac_ul, mac_dl, sched, ues_to_rem, erasing, sched_events, ready, tasks,
                       created, known, triggers, phy, notifier>>
    BY DEF UeStep, Offloaded, DuInv, IndexInv, db_vars, rem_vars, cu_vars, rlf_vars
  <1>2. /\ u # None /\ proc[i].kind \in Removals /\ tasks[i] = <<>> /\ triggers[u] > 0
        /\ proc[i].parts = D0 /\ Contexts(i, u, u, u, u)
    BY <1>1, Where
  <1>10. erasing # i
    BY <1>1, <1>2, StageFacts DEF IndexInv, ResponseInv
  <1>3. D0r \in Stages /\ D0r = <<"resume">> \o Tail(proc[i].parts) /\ D0r # <<>> /\ Head(D0r) = "resume"
    BY <1>2, StageFacts DEF Stages
  <1>4. /\ proc' = [proc EXCEPT ![i] = proc'[i]] /\ proc'[i] \in [kind : Procedures \union {"none"}, parts : Stages]
        /\ proc'[i].kind = proc[i].kind /\ proc'[i].parts = D0r
        /\ ctrl_queue' = Append(ctrl_queue, Task("resume", i, u))
        /\ ResponseInv(i)' /\ ResumeInv(i)'
        /\ Has(ctrl_queue', {"rlf"}, i) => mac_dl[i] = u
        /\ Owned(ctrl_queue', {"rlf"}, i, u)
    BY <1>1, <1>3, <1>10, OffloadedFacts
  <1>5. ProcInv(i)'
    BY <1>1, <1>2, <1>4 DEF ProcInv, Removing, Contexts
  <1>6. TasksInv(i)'
    BY <1>1, <1>2 DEF TasksInv
  <1>7. NotifierInv(i)'
    BY <1>1, <1>2, <1>4 DEF NotifierInv
  <1>8. IndexInv(i)'
    BY <1>4, <1>5, <1>6, <1>7 DEF IndexInv
  <1>9. ExecutorOf(i)
    BY <1>1, <1>4 DEF ExecutorOf, DuTypeOK
  <1>. QED  BY <1>1, <1>2, <1>8, <1>9, ExecutorStep

\* The MAC UL executor adds, reconfigures or removes its context.
LEMMA UlStepKeepsInv ==
    ASSUME DuUeAssumption, DuInv, NEW i \in Indexes, UlStep(i)
    PROVE  DuInv'
  <1>. DEFINE u == du_db[i]
              kind == proc[i].kind
  <1>1. /\ DuTypeOK /\ IndexInv(i) /\ ProcInv(i) /\ TasksInv(i) /\ NotifierInv(i)
        /\ Offloaded(i, "ul") /\ At(i, "ul") /\ failed = None
        /\ mac_ul' = [mac_ul EXCEPT ![i] = MacContext(i, mac_ul[i])]
        /\ failed' = IF MacRefuses(i, mac_ul) THEN "mac_ul" ELSE failed
        /\ UNCHANGED <<du_db, f1ap_ues, mac_ctrl, mac_dl, sched, ues_to_rem, erasing, sched_events, ready, tasks,
                       created, known, triggers, phy, notifier>>
    BY DEF UlStep, Offloaded, DuInv, IndexInv, rem_vars, cu_vars, rlf_vars
  <1>2. mac_ul'[i] = MacContext(i, mac_ul[i])
    BY <1>1 DEF DuTypeOK
  <1>3. /\ u # None /\ u \in Ues
        /\ \/ kind = "create" /\ tasks[i] = <<>> /\ u \notin known /\ proc[i].parts = C0 /\ Contexts(i, u, None, None, None)
           \/ kind = "setup" /\ proc[i].parts \in {C0, S0, S3} /\ Contexts(i, u, u, u, u)
           \/ kind \in Removals /\ tasks[i] = <<>> /\ triggers[u] > 0 /\ proc[i].parts = D3 /\ Contexts(i, u, u, None, None)
    <2>1. /\ u # None
          /\ \/ kind = "create" /\ tasks[i] = <<>> /\ u \notin known /\ proc[i].parts = C0 /\ Contexts(i, u, None, None, None)
             \/ kind = "setup" /\ proc[i].parts \in {C0, S0, S3} /\ Contexts(i, u, u, u, u)
             \/ kind \in Removals /\ tasks[i] = <<>> /\ triggers[u] > 0 /\ proc[i].parts = D3 /\ Contexts(i, u, u, None, None)
      BY <1>1, Where
    <2>. QED  BY <1>1, <2>1 DEF DuTypeOK
  <1>8. erasing # i
    <2>1. D3 \notin {D1, D2}
      BY StageFacts
    <2>. QED  BY <1>1, <1>3, <2>1 DEF IndexInv, ResponseInv, Removals
  <1>4. ASSUME NEW r \in {C0r, S0r, S3r, D3r}, r = <<"resume">> \o Tail(proc[i].parts)
        PROVE  /\ proc' = [proc EXCEPT ![i] = proc'[i]] /\ proc'[i] \in [kind : Procedures \union {"none"}, parts : Stages]
               /\ proc'[i].kind = kind /\ proc'[i].parts = r
               /\ ctrl_queue' = Append(ctrl_queue, Task("resume", i, u))
               /\ ResponseInv(i)' /\ ResumeInv(i)'
               /\ Has(ctrl_queue', {"rlf"}, i) => mac_dl[i] = u
               /\ Owned(ctrl_queue', {"rlf"}, i, u) /\ Covered(ctrl_queue', i)
    <2>1. r \in Stages /\ r # <<>> /\ Head(r) = "resume"
      BY StageFacts, SetupFacts, SMTT(60) DEF Stages, SetupStages
    <2>. QED  BY <1>1, <1>4, <1>8, <2>1, OffloadedFacts
  <1>5. CASE kind = "create" /\ tasks[i] = <<>> /\ u \notin known /\ proc[i].parts = C0 /\ Contexts(i, u, None, None, None)
    <2>1. /\ MacContext(i, mac_ul[i]) = u /\ failed' = None
      BY <1>1, <1>3, <1>5 DEF MacContext, MacRefuses, Contexts, Removals
    <2>2. C0r = <<"resume">> \o Tail(proc[i].parts)
      BY <1>5, StageFacts
    <2>3. /\ proc' = [proc EXCEPT ![i] = proc'[i]] /\ proc'[i] \in [kind : Procedures \union {"none"}, parts : Stages]
          /\ proc'[i].kind = kind /\ proc'[i].parts = C0r
          /\ ctrl_queue' = Append(ctrl_queue, Task("resume", i, u))
          /\ ResponseInv(i)' /\ ResumeInv(i)'
          /\ Has(ctrl_queue', {"rlf"}, i) => mac_dl[i] = u
          /\ Owned(ctrl_queue', {"rlf"}, i, u) /\ Covered(ctrl_queue', i)
      BY <1>4, <2>2
    <2>4. Contexts(i, u, u, None, None)'
      BY <1>1, <1>2, <1>5, <2>1 DEF Contexts
    <2>5. ProcInv(i)'
      BY <1>1, <1>3, <1>5, <2>3, <2>4 DEF ProcInv, Creating
    <2>6. TasksInv(i)'
      BY <1>1, <1>3, <1>5 DEF TasksInv
    <2>7. NotifierInv(i)'
      BY <1>1, <1>3, <2>3 DEF NotifierInv
    <2>8. IndexInv(i)'
      BY <2>3, <2>5, <2>6, <2>7 DEF IndexInv
    <2>9. ExecutorOf(i)
      <3>1. mac_ul' = [mac_ul EXCEPT ![i] = mac_ul'[i]] /\ mac_ul'[i] \in Ues \union {None}
        BY <1>1, <1>2, <1>3, <2>1
      <3>. QED  BY <1>1, <2>3, <3>1 DEF ExecutorOf, DuTypeOK
    <2>. QED  BY <1>3, <2>1, <2>8, <2>9, ExecutorStep
  <1>6. CASE kind = "setup" /\ proc[i].parts \in {C0, S0, S3} /\ Contexts(i, u, u, u, u)
    <2>1. /\ MacContext(i, mac_ul[i]) = u /\ failed' = None
      BY <1>1, <1>3, <1>6 DEF MacContext, MacRefuses, Contexts, Removals
    <2>2. PICK r \in {C0r, S0r, S3r} : r = <<"resume">> \o Tail(proc[i].parts)
      <3>1. CASE proc[i].parts = C0
        BY <3>1, StageFacts
      <3>2. CASE proc[i].parts = S0
        BY <3>2, SetupFacts
      <3>3. CASE proc[i].parts = S3
        BY <3>3, SetupFacts
      <3>. QED  BY <1>6, <3>1, <3>2, <3>3
    <2>3. /\ proc' = [proc EXCEPT ![i] = proc'[i]] /\ proc'[i] \in [kind : Procedures \union {"none"}, parts : Stages]
          /\ proc'[i].kind = kind /\ proc'[i].parts = r
          /\ ctrl_queue' = Append(ctrl_queue, Task("resume", i, u))
          /\ ResponseInv(i)' /\ ResumeInv(i)'
          /\ Has(ctrl_queue', {"rlf"}, i) => mac_dl[i] = u
          /\ Owned(ctrl_queue', {"rlf"}, i, u) /\ Covered(ctrl_queue', i)
      BY <1>4, <2>2
    <2>4. Contexts(i, u, u, u, u)'
      BY <1>1, <1>2, <1>6, <2>1 DEF Contexts
    <2>5. ProcInv(i)'
      BY <1>1, <1>3, <1>6, <2>3, <2>4 DEF ProcInv, SettingUp, SetupStages
    <2>6. TasksInv(i)'
      <3>1. proc[i] # NoProc
        BY <1>6 DEF NoProc
      <3>. QED  BY <1>1, <1>3, <1>6, <2>3, <3>1 DEF TasksInv
    <2>7. NotifierInv(i)'
      BY <1>1, <1>3, <2>3 DEF NotifierInv
    <2>8. IndexInv(i)'
      BY <2>3, <2>5, <2>6, <2>7 DEF IndexInv
    <2>9. ExecutorOf(i)
      <3>1. mac_ul' = [mac_ul EXCEPT ![i] = mac_ul'[i]] /\ mac_ul'[i] \in Ues \union {None}
        BY <1>1, <1>2, <1>3, <2>1
      <3>. QED  BY <1>1, <2>3, <3>1, ZenonT(60) DEF ExecutorOf, DuTypeOK
    <2>. QED  BY <1>3, <2>1, <2>8, <2>9, ExecutorStep
  <1>7. CASE kind \in Removals /\ tasks[i] = <<>> /\ triggers[u] > 0 /\ proc[i].parts = D3 /\ Contexts(i, u, u, None, None)
    <2>1. /\ MacContext(i, mac_ul[i]) = None /\ failed' = None
      BY <1>1, <1>3, <1>7 DEF MacContext, MacRefuses, Contexts, Removals
    <2>2. D3r = <<"resume">> \o Tail(proc[i].parts)
      BY <1>7, StageFacts
    <2>3. /\ proc' = [proc EXCEPT ![i] = proc'[i]] /\ proc'[i] \in [kind : Procedures \union {"none"}, parts : Stages]
          /\ proc'[i].kind = kind /\ proc'[i].parts = D3r
          /\ ctrl_queue' = Append(ctrl_queue, Task("resume", i, u))
          /\ ResponseInv(i)' /\ ResumeInv(i)'
          /\ Has(ctrl_queue', {"rlf"}, i) => mac_dl[i] = u
          /\ Owned(ctrl_queue', {"rlf"}, i, u) /\ Covered(ctrl_queue', i)
      BY <1>4, <2>2
    <2>4. Contexts(i, u, None, None, None)'
      BY <1>1, <1>2, <1>7, <2>1 DEF Contexts
    <2>5. ProcInv(i)'
      BY <1>1, <1>3, <1>7, <2>3, <2>4 DEF ProcInv, Removing
    <2>6. TasksInv(i)'
      BY <1>1, <1>3, <1>7 DEF TasksInv
    <2>7. NotifierInv(i)'
      BY <1>1, <1>3, <2>3 DEF NotifierInv
    <2>8. IndexInv(i)'
      BY <2>3, <2>5, <2>6, <2>7 DEF IndexInv
    <2>9. ExecutorOf(i)
      <3>1. mac_ul' = [mac_ul EXCEPT ![i] = mac_ul'[i]] /\ mac_ul'[i] \in Ues \union {None}
        BY <1>1, <1>2, <1>3, <2>1
      <3>. QED  BY <1>1, <2>3, <3>1 DEF ExecutorOf, DuTypeOK
    <2>. QED  BY <1>3, <2>1, <2>8, <2>9, ExecutorStep
  <1>. QED  BY <1>3, <1>5, <1>6, <1>7

\* The MAC DL executor adds, reconfigures or removes its context and the notifier
\* of the RLF detector.
LEMMA DlStepKeepsInv ==
    ASSUME DuUeAssumption, DuInv, NEW i \in Indexes, DlStep(i)
    PROVE  DuInv'
  <1>. DEFINE u == du_db[i]
              kind == proc[i].kind
  <1>1. /\ DuTypeOK /\ IndexInv(i) /\ ProcInv(i) /\ TasksInv(i) /\ NotifierInv(i)
        /\ Offloaded(i, "dl") /\ At(i, "dl") /\ failed = None /\ erasing = None
        /\ mac_dl' = [mac_dl EXCEPT ![i] = MacContext(i, mac_dl[i])]
        /\ failed' = IF MacRefuses(i, mac_dl) THEN "mac_dl" ELSE failed
        /\ UNCHANGED <<du_db, f1ap_ues, mac_ctrl, mac_ul, sched, ues_to_rem, erasing, sched_events, ready, tasks,
                       created, known, triggers>>
    BY DEF DlStep, Offloaded, DuInv, IndexInv, rem_vars, cu_vars
  <1>2. mac_dl'[i] = MacContext(i, mac_dl[i])
    BY <1>1 DEF DuTypeOK
  <1>9. erasing # i
    BY <1>1 DEF DuUeAssumption
  <1>3. /\ u # None /\ u \in Ues
        /\ \/ kind = "create" /\ tasks[i] = <<>> /\ u \notin known /\ proc[i].parts = C1 /\ Contexts(i, u, u, None, None)
           \/ kind = "setup" /\ proc[i].parts \in {C1, S1, S4} /\ Contexts(i, u, u, u, u)
           \/ kind \in Removals /\ tasks[i] = <<>> /\ triggers[u] > 0 /\ proc[i].parts = D2 /\ Contexts(i, u, u, u, None)
    <2>1. /\ u # None
          /\ \/ kind = "create" /\ tasks[i] = <<>> /\ u \notin known /\ proc[i].parts = C1 /\ Contexts(i, u, u, None, None)
             \/ kind = "setup" /\ proc[i].parts \in {C1, S1, S4} /\ Contexts(i, u, u, u, u)
             \/ kind \in Removals /\ tasks[i] = <<>> /\ triggers[u] > 0 /\ proc[i].parts = D2 /\ Contexts(i, u, u, u, None)
      BY <1>1, <1>9, Where
    <2>. QED  BY <1>1, <2>1 DEF DuTypeOK
  <1>4. /\ UNCHANGED phy
        /\ kind = "create" => notifier' = [notifier EXCEPT ![i] = u]
        /\ kind = "setup" => notifier' = notifier
        /\ kind \in Removals => notifier' = [notifier EXCEPT ![i] = None]
    BY <1>3 DEF DlStep, RlfAddUe, RlfRemUe, rlf_vars, Removals
  <1>5. ASSUME NEW r \in {C1r, S1r, D2r, D3r}, r = <<"resume">> \o Tail(proc[i].parts)
        PROVE  /\ proc' = [proc EXCEPT ![i] = proc'[i]] /\ proc'[i] \in [kind : Procedures \union {"none"}, parts : Stages]
               /\ proc'[i].kind = kind /\ proc'[i].parts = r
               /\ ctrl_queue' = Append(ctrl_queue, Task("resume", i, u))
               /\ ResponseInv(i)' /\ ResumeInv(i)'
               /\ Has(ctrl_queue', {"rlf"}, i) => mac_dl[i] = u
               /\ Owned(ctrl_queue', {"rlf"}, i, u) /\ Covered(ctrl_queue', i)
    <2>1. r \in Stages /\ r # <<>> /\ Head(r) = "resume"
      BY StageFacts, SetupFacts, SMTT(60) DEF Stages, SetupStages
    <2>. QED  BY <1>1, <1>5, <1>9, <2>1, OffloadedFacts
  <1>6. CASE kind = "create" /\ tasks[i] = <<>> /\ u \notin known /\ proc[i].parts = C1 /\ Contexts(i, u, u, None, None)
    <2>1. /\ MacContext(i, mac_dl[i]) = u /\ failed' = None
      BY <1>1, <1>3, <1>6 DEF MacContext, MacRefuses, Contexts, Removals
    <2>2. C1r = <<"resume">> \o Tail(proc[i].parts)
      BY <1>6, StageFacts
    <2>3. /\ proc' = [proc EXCEPT ![i] = proc'[i]] /\ proc'[i] \in [kind : Procedures \union {"none"}, parts : Stages]
          /\ proc'[i].kind = kind /\ proc'[i].parts = C1r
          /\ ctrl_queue' = Append(ctrl_queue, Task("resume", i, u))
          /\ ResponseInv(i)' /\ ResumeInv(i)'
          /\ Has(ctrl_queue', {"rlf"}, i) => mac_dl[i] = u
          /\ Owned(ctrl_queue', {"rlf"}, i, u) /\ Covered(ctrl_queue', i)
      BY <1>5, <2>2
    <2>4. Contexts(i, u, u, u, None)'
      BY <1>1, <1>2, <1>6, <2>1 DEF Contexts
    <2>5. ProcInv(i)'
      BY <1>1, <1>3, <1>6, <2>3, <2>4 DEF ProcInv, Creating
    <2>6. TasksInv(i)'
      BY <1>1, <1>3, <1>6 DEF TasksInv
    <2>7. NotifierInv(i)'
      <3>1. mac_dl[i] = None /\ mac_dl'[i] = u /\ notifier'[i] = u /\ kind \notin Removals
        BY <1>1, <1>2, <1>4, <1>6, <2>1 DEF Contexts, DuTypeOK, Removals
      <3>. QED  BY <1>1, <1>3, <2>3, <3>1 DEF NotifierInv
    <2>8. IndexInv(i)'
      BY <2>3, <2>5, <2>6, <2>7 DEF IndexInv
    <2>9. ExecutorOf(i)
      <3>1. mac_dl' = [mac_dl EXCEPT ![i] = mac_dl'[i]] /\ mac_dl'[i] \in Ues \union {None}
        BY <1>1, <1>2, <1>3, <2>1
      <3>2. notifier' = [notifier EXCEPT ![i] = notifier'[i]] /\ notifier'[i] \in Ues \union {None, notifier[i]}
        BY <1>1, <1>3, <1>4, <1>6 DEF DuTypeOK
      <3>. QED  BY <1>1, <1>4, <2>3, <3>1, <3>2, ZenonT(60) DEF ExecutorOf, DuTypeOK
    <2>. QED  BY <1>3, <2>1, <2>8, <2>9, ExecutorStep
  <1>7. CASE kind = "setup" /\ proc[i].parts \in {C1, S1, S4} /\ Contexts(i, u, u, u, u)
    <2>1. /\ MacContext(i, mac_dl[i]) = u /\ failed' = None
      BY <1>1, <1>3, <1>7 DEF MacContext, MacRefuses, Contexts, Removals
    <2>2. PICK r \in {C1r, S1r, D3r} : r = <<"resume">> \o Tail(proc[i].parts)
      <3>1. CASE proc[i].parts = C1
        BY <3>1, StageFacts
      <3>2. CASE proc[i].parts = S1
        BY <3>2, SetupFacts
      <3>3. CASE proc[i].parts = S4
        BY <3>3, SetupFacts
      <3>. QED  BY <1>7, <3>1, <3>2, <3>3
    <2>3. /\ proc' = [proc EXCEPT ![i] = proc'[i]] /\ proc'[i] \in [kind : Procedures \union {"none"}, parts : Stages]
          /\ proc'[i].kind = kind /\ proc'[i].parts = r
          /\ ctrl_queue' = Append(ctrl_queue, Task("resume", i, u))
          /\ ResponseInv(i)' /\ ResumeInv(i)'
          /\ Has(ctrl_queue', {"rlf"}, i) => mac_dl[i] = u
          /\ Owned(ctrl_queue', {"rlf"}, i, u) /\ Covered(ctrl_queue', i)
      BY <1>5, <2>2
    <2>4. Contexts(i, u, u, u, u)'
      BY <1>1, <1>2, <1>7, <2>1 DEF Contexts
    <2>5. ProcInv(i)'
      BY <1>1, <1>3, <1>7, <2>3, <2>4 DEF ProcInv, SettingUp, SetupStages
    <2>6. TasksInv(i)'
      <3>1. proc[i] # NoProc
        BY <1>7 DEF NoProc
      <3>. QED  BY <1>1, <1>3, <1>7, <2>3, <3>1 DEF TasksInv
    <2>7. NotifierInv(i)'
      <3>1. mac_dl'[i] = mac_dl[i] /\ notifier'[i] = notifier[i]
        BY <1>2, <1>4, <1>7, <2>1 DEF Contexts
      <3>. QED  BY <1>1, <1>3, <2>3, <3>1 DEF NotifierInv
    <2>8. IndexInv(i)'
      BY <2>3, <2>5, <2>6, <2>7 DEF IndexInv
    <2>9. ExecutorOf(i)
      <3>1. mac_dl' = [mac_dl EXCEPT ![i] = mac_dl'[i]] /\ mac_dl'[i] \in Ues \union {None}
        BY <1>1, <1>2, <1>3, <2>1
      <3>2. notifier' = [notifier EXCEPT ![i] = notifier'[i]] /\ notifier'[i] \in Ues \union {None, notifier[i]}
        BY <1>1, <1>3, <1>4, <1>7 DEF DuTypeOK
      <3>. QED  BY <1>1, <1>4, <2>3, <3>1, <3>2, ZenonT(60) DEF ExecutorOf, DuTypeOK
    <2>. QED  BY <1>3, <2>1, <2>8, <2>9, ExecutorStep
  <1>8. CASE kind \in Removals /\ tasks[i] = <<>> /\ triggers[u] > 0 /\ proc[i].parts = D2 /\ Contexts(i, u, u, u, None)
    <2>1. /\ MacContext(i, mac_dl[i]) = None /\ failed' = None
      BY <1>1, <1>3, <1>8 DEF MacContext, MacRefuses, Contexts, Removals
    <2>2. D2r = <<"resume">> \o Tail(proc[i].parts)
      BY <1>8, StageFacts
    <2>3. /\ proc' = [proc EXCEPT ![i] = proc'[i]] /\ proc'[i] \in [kind : Procedures \union {"none"}, parts : Stages]
          /\ proc'[i].kind = kind /\ proc'[i].parts = D2r
          /\ ctrl_queue' = Append(ctrl_queue, Task("resume", i, u))
          /\ ResponseInv(i)' /\ ResumeInv(i)'
          /\ Has(ctrl_queue', {"rlf"}, i) => mac_dl[i] = u
          /\ Owned(ctrl_queue', {"rlf"}, i, u) /\ Covered(ctrl_queue', i)
      BY <1>5, <2>2
    <2>4. Contexts(i, u, u, None, None)'
      BY <1>1, <1>2, <1>8, <2>1 DEF Contexts
    <2>5. ProcInv(i)'
      BY <1>1, <1>3, <1>8, <2>3, <2>4 DEF ProcInv, Removing
    <2>6. TasksInv(i)'
      BY <1>1, <1>3, <1>8 DEF TasksInv
    <2>7. NotifierInv(i)'
      <3>1. mac_dl'[i] = None /\ notifier'[i] = None /\ None \notin Ues /\ None # Uninitialised
        BY <1>1, <1>2, <1>4, <1>8, <2>1, ZenonT(60) DEF DuTypeOK, DuUeAssumption
      <3>. QED  BY <1>1, <1>3, <2>3, <3>1 DEF NotifierInv
    <2>8. IndexInv(i)'
      BY <2>3, <2>5, <2>6, <2>7 DEF IndexInv
    <2>9. ExecutorOf(i)
      <3>1. mac_dl' = [mac_dl EXCEPT ![i] = mac_dl'[i]] /\ mac_dl'[i] \in Ues \union {None}
        BY <1>1, <1>2, <1>3, <2>1
      <3>2. notifier' = [notifier EXCEPT ![i] = notifier'[i]] /\ notifier'[i] \in Ues \union {None, notifier[i]}
        BY <1>1, <1>3, <1>4, <1>8 DEF DuTypeOK
      <3>. QED  BY <1>1, <1>4, <2>3, <3>1, <3>2 DEF ExecutorOf, DuTypeOK
    <2>. QED  BY <1>3, <2>1, <2>8, <2>9, ExecutorStep
  <1>. QED  BY <1>3, <1>6, <1>7, <1>8

-----------------------------------------------------------------------------
(* The steps of the scheduler *)

\* A step of the scheduler for index i.
SchedulerOf(i) ==
    /\ sched' = [sched EXCEPT ![i] = sched'[i]] /\ sched'[i] \in Ues \union {None}
    /\ ues_to_rem' \subseteq Indexes /\ erasing' \in Indexes \union {None}
    /\ \A j \in Indexes \ {i} : (j \in ues_to_rem' <=> j \in ues_to_rem) /\ (erasing' = j <=> erasing = j)
    /\ \/ sched_events' = sched_events
       \/ sched_events # <<>> /\ Head(sched_events).ue_index = i /\ sched_events' = Tail(sched_events)
    /\ \/ ctrl_queue' = ctrl_queue
       \/ \E t \in Tasks : t.ue_index = i /\ ctrl_queue' = Append(ctrl_queue, t)
    /\ UNCHANGED <<du_db, f1ap_ues, mac_ctrl, mac_ul, mac_dl, ready, tasks, proc, created, known, triggers, phy, notifier>>

\* It keeps the invariant when it keeps what is true of the index.
LEMMA SchedulerStep ==
    ASSUME DuUeAssumption, DuInv, NEW i \in Indexes, SchedulerOf(i), failed' = None, IndexInv(i)'
    PROVE  DuInv'
  <1>1. DuTypeOK /\ UesDistinct /\ PhyInv
    BY DEF DuInv
  <1>2. DuTypeOK'
    <2>1. sched' \in [Indexes -> Ues \union {None}]
      BY <1>1 DEF DuTypeOK, SchedulerOf
    <2>2. sched_events' \in Seq(Tasks)
      <3>1. sched_events \in Seq(Tasks) /\ (sched_events # <<>> => Tail(sched_events) \in Seq(Tasks))
        BY <1>1, TailFacts DEF DuTypeOK
      <3>. QED  BY <3>1, ZenonT(40) DEF SchedulerOf
    <2>3. ctrl_queue' \in Seq(Tasks)
      <3>1. ctrl_queue \in Seq(Tasks) /\ \A t \in Tasks : Append(ctrl_queue, t) \in Seq(Tasks)
        BY <1>1, AppendFacts DEF DuTypeOK
      <3>. QED  BY <3>1, ZenonT(40) DEF SchedulerOf
    <2>. QED  BY <1>1, <2>1, <2>2, <2>3 DEF DuTypeOK, SchedulerOf
  <1>3. UesDistinct' /\ PhyInv'
    BY <1>1 DEF UesDistinct, PhyInv, SchedulerOf
  <1>4. ASSUME NEW j \in Indexes \ {i}
        PROVE  Untouched(j)
    <2>1. QueueStep(ctrl_queue, ctrl_queue', j)
      BY <1>4, ZenonT(40) DEF QueueStep, SchedulerOf
    <2>2. QueueStep(sched_events, sched_events', j)
      BY <1>4, ZenonT(40) DEF QueueStep, SchedulerOf
    <2>. QED  BY <1>1, <1>4, <2>1, <2>2 DEF Untouched, DuTypeOK, SchedulerOf
  <1>. QED  BY <1>2, <1>3, <1>4, OneIndex DEF DuAssertionsHold

\* The response of the scheduler is queued for the control thread.
LEMMA ReadyQueued ==
    ASSUME DuUeAssumption, DuTypeOK, NEW i \in Indexes, IndexInv(i), ~ReadyDue(i), NEW v \in Ues,
           ctrl_queue' = Append(ctrl_queue, Task("ready", i, v)), UNCHANGED <<du_db, mac_dl, notifier, proc>>
    PROVE  /\ ReadyDue(i)' /\ Once(ctrl_queue', {"ready"}, i)
           /\ ResumeInv(i)' /\ NotifierInv(i)'
           /\ \E t \in Tasks : t.ue_index = i /\ ctrl_queue' = Append(ctrl_queue, t)
  <1>1. PICK t : t = Task("ready", i, v)
    OBVIOUS
  <1>2. /\ t \in Tasks /\ Matches(t, {"ready"}, i) /\ ~Matches(t, {"resume"}, i) /\ ~Matches(t, {"rlf"}, i)
        /\ t.ue_index = i
    BY <1>1 DEF Task, Tasks, Matches
  <1>3. ctrl_queue' = Append(ctrl_queue, t) /\ ctrl_queue \in Seq(Tasks)
    BY <1>1 DEF DuTypeOK
  <1>4. ResponseInv(i) /\ ResumeInv(i) /\ NotifierInv(i)
    BY DEF IndexInv
  <1>5. /\ Has(ctrl_queue', {"ready"}, i) /\ Once(ctrl_queue', {"ready"}, i)
        /\ Has(ctrl_queue', {"resume"}, i) <=> Has(ctrl_queue, {"resume"}, i)
        /\ Once(ctrl_queue', {"resume"}, i)
        /\ Has(ctrl_queue', {"rlf"}, i) <=> Has(ctrl_queue, {"rlf"}, i)
        /\ Owned(ctrl_queue', {"rlf"}, i, du_db[i])
        /\ Covered(ctrl_queue, i) => Covered(ctrl_queue', i)
    <2>1. /\ ~Has(ctrl_queue, {"ready"}, i) /\ Once(ctrl_queue, {"ready"}, i)
          /\ Once(ctrl_queue, {"resume"}, i) /\ Owned(ctrl_queue, {"rlf"}, i, du_db[i])
      BY <1>4 DEF ResponseInv, ResumeInv, NotifierInv, ReadyDue
    <2>2. /\ \A kinds, k : Has(ctrl_queue', kinds, k) <=> Has(ctrl_queue, kinds, k) \/ Matches(t, kinds, k)
          /\ \A kinds, k : Once(ctrl_queue, kinds, k) /\ ~(Has(ctrl_queue, kinds, k) /\ Matches(t, kinds, k))
                            => Once(ctrl_queue', kinds, k)
          /\ \A kinds, k, u : Owned(ctrl_queue, kinds, k, u) /\ (Matches(t, kinds, k) => t.ue = u)
                               => Owned(ctrl_queue', kinds, k, u)
          /\ \A k : Covered(ctrl_queue, k) /\ ~Matches(t, {"rlf"}, k) => Covered(ctrl_queue', k)
      <3>1. t \in Tasks /\ ctrl_queue \in Seq(Tasks) /\ Append(ctrl_queue, t) = ctrl_queue'
        BY <1>2, <1>3
      <3>. QED  BY <3>1, AppendFacts
    <2>3. /\ Has(ctrl_queue', {"ready"}, i)
          /\ Has(ctrl_queue', {"resume"}, i) <=> Has(ctrl_queue, {"resume"}, i)
          /\ Has(ctrl_queue', {"rlf"}, i) <=> Has(ctrl_queue, {"rlf"}, i)
      BY <1>2, <2>2, ZenonT(40)
    <2>4. Once(ctrl_queue', {"ready"}, i) /\ Once(ctrl_queue', {"resume"}, i)
      BY <1>2, <2>1, <2>2, ZenonT(40)
    <2>5. Owned(ctrl_queue', {"rlf"}, i, du_db[i]) /\ (Covered(ctrl_queue, i) => Covered(ctrl_queue', i))
      BY <1>2, <2>1, <2>2, ZenonT(40)
    <2>. QED  BY <2>3, <2>4, <2>5
  <1>6. ResumeInv(i)'
    BY <1>4, <1>5 DEF ResumeInv, At
  <1>7. NotifierInv(i)'
    BY <1>4, <1>5 DEF NotifierInv
  <1>. QED  BY <1>2, <1>3, <1>5, <1>6, <1>7 DEF ReadyDue

\* Nothing but the scheduler's own state changes for an index.
LEMMA TasksKept ==
    ASSUME NEW i \in Indexes, IndexInv(i), UNCHANGED <<du_db, f1ap_ues, tasks, proc, known, triggers>>
    PROVE  TasksInv(i)'
  BY DEF IndexInv, TasksInv

\* The scheduler takes a configuration event: it answers at once, or marks the UE
\* for removal.
LEMMA SchedEventKeepsInv ==
    ASSUME DuUeAssumption, DuInv, SchedEvent
    PROVE  DuInv'
  <1>1. PICK i : i = Head(sched_events).ue_index
    OBVIOUS
  <1>. DEFINE u == du_db[i]
              kind == proc[i].kind
              ev == Head(sched_events)
  <1>2. /\ DuTypeOK /\ failed = None /\ sched_events # <<>> /\ sched_events' = Tail(sched_events)
        /\ erasing = None /\ erasing' = None
        /\ ev.kind \in Procedures
        /\ UNCHANGED <<du_db, f1ap_ues, mac_ctrl, mac_ul, mac_dl, ready, tasks, proc, created, known, triggers, phy, notifier>>
    BY DEF SchedEvent, DuInv, rlf_vars, rem_vars, cu_vars, Procedures
  <1>3. sched_events \in Seq(Tasks) /\ ev \in Tasks /\ i \in Indexes
    <2>1. sched_events \in Seq(Tasks)
      BY <1>2 DEF DuTypeOK
    <2>2. ev \in Tasks
      BY <1>2, <2>1, TailFacts
    <2>. QED  BY <1>1, <2>1, <2>2 DEF Tasks
  <1>4. IndexInv(i) /\ ProcInv(i) /\ ResponseInv(i) /\ ResumeInv(i) /\ NotifierInv(i) /\ erasing' # i
    BY <1>2, <1>3 DEF DuInv, IndexInv, DuUeAssumption
  <1>5. Matches(ev, Procedures, i)
    BY <1>1, <1>2 DEF Matches
  <1>6. /\ Has(sched_events, Procedures, i) /\ ~Has(sched_events', Procedures, i) /\ Once(sched_events', Procedures, i)
        /\ Expected(sched_events', i, kind, u) /\ ev = Task(kind, i, u)
    <2>1. Once(sched_events, Procedures, i) /\ Expected(sched_events, i, kind, u)
      BY <1>4 DEF ResponseInv
    <2>2. /\ \A kinds, k : Has(sched_events, kinds, k) <=> Has(sched_events', kinds, k) \/ Matches(ev, kinds, k)
          /\ \A kinds, k : Once(sched_events, kinds, k) => Once(sched_events', kinds, k)
          /\ \A kinds, k : Once(sched_events, kinds, k) /\ Matches(ev, kinds, k) => ~Has(sched_events', kinds, k)
          /\ \A k, c, v : Expected(sched_events, k, c, v) => Expected(sched_events', k, c, v)
          /\ \A k, c, v : Expected(sched_events, k, c, v) /\ ev.ue_index = k => ev = Task(c, k, v)
      BY <1>2, <1>3, TailFacts, ZenonT(40)
    <2>. QED  BY <1>1, <1>5, <2>1, <2>2, ZenonT(40)
  <1>7. EventDue(i) /\ ~EventDue(i)'
    BY <1>6 DEF EventDue
  <1>8. At(i, "sched") /\ i \notin ues_to_rem /\ ~ReadyDue(i) /\ ~ready[i]
    BY <1>4, <1>7, ZenonT(40) DEF ResponseInv
  <1>9. ev.kind = kind /\ ev.ue = u
    BY <1>6 DEF Task
  <1>10. /\ u # None /\ u \in Ues
         /\ \/ kind = "create" /\ tasks[i] = <<>> /\ u \notin known /\ proc[i].parts = C2 /\ Contexts(i, u, u, u, None)
            \/ kind = "setup" /\ proc[i].parts \in {C2, S2} /\ Contexts(i, u, u, u, u)
            \/ kind \in Removals /\ tasks[i] = <<>> /\ triggers[u] > 0 /\ proc[i].parts = D1 /\ Contexts(i, u, u, u, u)
    <2>1. /\ u # None
          /\ \/ kind = "create" /\ tasks[i] = <<>> /\ u \notin known /\ proc[i].parts = C2 /\ Contexts(i, u, u, u, None)
             \/ kind = "setup" /\ proc[i].parts \in {C2, S2} /\ Contexts(i, u, u, u, u)
             \/ kind \in Removals /\ tasks[i] = <<>> /\ triggers[u] > 0 /\ proc[i].parts = D1 /\ Contexts(i, u, u, u, u)
      BY <1>3, <1>4, <1>7, <1>8, Where
    <2>. QED  BY <1>2, <1>3, <2>1 DEF DuTypeOK
  <1>11. TasksInv(i)'
    BY <1>2, <1>3, <1>4, TasksKept
  <1>12. At(i, "sched")'
    BY <1>2, <1>8 DEF At
  <1>13. CASE kind \in {"create", "setup"}
    <2>1. /\ ctrl_queue' = Append(ctrl_queue, Task("ready", i, u)) /\ ues_to_rem' = ues_to_rem /\ failed' = None
          /\ sched' = [sched EXCEPT ![i] = u] /\ sched'[i] = u
      <3>1. sched = [sched EXCEPT ![i] = sched[i]] /\ sched \in [Indexes -> Ues \union {None}]
        BY <1>2 DEF DuTypeOK
      <3>2. CASE kind = "create"
        <4>1. sched[i] = None
          BY <1>10, <3>2 DEF Contexts, Removals
        <4>. QED  BY <1>1, <1>2, <1>3, <1>9, <3>1, <3>2, <4>1 DEF SchedEvent, Defer, rem_vars
      <3>3. CASE kind = "setup"
        <4>1. sched[i] = u
          BY <1>10, <3>3 DEF Contexts, Removals
        <4>. QED  BY <1>1, <1>2, <1>9, <1>10, <3>1, <3>3, <4>1 DEF SchedEvent, Defer, rem_vars
      <3>. QED  BY <1>13, <3>2, <3>3
    <2>2. /\ ReadyDue(i)' /\ Once(ctrl_queue', {"ready"}, i) /\ ResumeInv(i)' /\ NotifierInv(i)'
          /\ \E t \in Tasks : t.ue_index = i /\ ctrl_queue' = Append(ctrl_queue, t)
      BY <1>2, <1>3, <1>4, <1>8, <1>10, <2>1, ReadyQueued
    <2>3. ResponseInv(i)'
      BY <1>2, <1>4, <1>6, <1>7, <1>8, <1>12, <2>1, <2>2, ZenonT(40) DEF ResponseInv
    <2>4. Contexts(i, u, u, u, u)'
      BY <1>2, <1>10, <1>13, <2>1 DEF Contexts, Removals
    <2>5. ProcInv(i)'
      <3>1. CASE kind = "create"
        BY <1>2, <1>7, <1>10, <2>4, <3>1 DEF ProcInv, Creating, Removals
      <3>2. CASE kind = "setup"
        BY <1>2, <1>10, <2>4, <3>2 DEF ProcInv, SettingUp, SetupStages, Removals
      <3>. QED  BY <1>13, <3>1, <3>2
    <2>6. IndexInv(i)'
      BY <1>11, <2>2, <2>3, <2>5 DEF IndexInv
    <2>7. SchedulerOf(i)
      <3>1. sched' = [sched EXCEPT ![i] = sched'[i]] /\ sched'[i] \in Ues \union {None}
        BY <1>10, <2>1
      <3>2. ues_to_rem' \subseteq Indexes
        BY <1>2, <2>1 DEF DuTypeOK
      <3>. QED  BY <1>1, <1>2, <2>1, <2>2, <3>1, <3>2, ZenonT(40) DEF SchedulerOf
    <2>. QED  BY <1>3, <2>1, <2>6, <2>7, SchedulerStep
  <1>14. CASE kind \in Removals
    <2>1. /\ ctrl_queue' = ctrl_queue /\ ues_to_rem' = ues_to_rem \union {i} /\ failed' = None /\ sched' = sched
      <3>1. sched[i] = u /\ kind # "create" /\ kind # "setup"
        BY <1>10, <1>14 DEF Contexts, Removals
      <3>. QED  BY <1>1, <1>2, <1>9, <1>10, <3>1 DEF SchedEvent
    <2>2. ResponseInv(i)'
      <3>1. ~ReadyDue(i)' /\ i \in ues_to_rem' /\ ~ready'[i] /\ kind = proc'[i].kind
        BY <1>2, <1>8, <2>1 DEF ReadyDue
      <3>. QED  BY <1>2, <1>4, <1>6, <1>7, <1>12, <1>14, <2>1, <3>1, ZenonT(40) DEF ResponseInv
    <2>3. ResumeInv(i)' /\ NotifierInv(i)'
      BY <1>2, <1>4, <2>1 DEF ResumeInv, NotifierInv, At
    <2>4. ProcInv(i)'
      <3>1. Contexts(i, u, u, u, u)' /\ i \in ues_to_rem'
        BY <1>2, <1>10, <1>14, <2>1 DEF Contexts, Removals
      <3>. QED  BY <1>2, <1>10, <1>14, <3>1 DEF ProcInv, Removing, Removals
    <2>5. IndexInv(i)'
      BY <1>11, <2>2, <2>3, <2>4 DEF IndexInv
    <2>6. SchedulerOf(i)
      BY <1>1, <1>2, <1>3, <2>1 DEF SchedulerOf, DuTypeOK
    <2>. QED  BY <1>3, <2>1, <2>5, <2>6, SchedulerStep
  <1>. QED  BY <1>10, <1>13, <1>14

\* The HARQs of a marked UE become empty or busy.
LEMMA SchedHarqsKeepsInv ==
    ASSUME DuInv, NEW i \in Indexes, SchedHarqs(i)
    PROVE  DuInv'
  <1>1. UNCHANGED inv_vars /\ failed' = failed
    BY DEF SchedHarqs, sched_unchanged, inv_vars, rlf_vars, cu_vars
  <1>. QED  BY <1>1, StutterKeepsInv DEF DuInv, DuAssertionsHold

\* At a slot indication the scheduler answers for a marked UE.
LEMMA SchedNotifyKeepsInv ==
    ASSUME DuUeAssumption, DuInv, NEW i \in Indexes, SchedNotify(i)
    PROVE  DuInv'
  <1>. DEFINE u == du_db[i]
              kind == proc[i].kind
  <1>1. /\ DuTypeOK /\ failed' = None /\ i \in ues_to_rem /\ ues_to_rem' = ues_to_rem \ {i}
        /\ erasing = None /\ erasing' = i /\ sched' = sched
        /\ ctrl_queue' = Append(ctrl_queue, Task("ready", i, sched[i]))
        /\ UNCHANGED <<du_db, f1ap_ues, mac_ctrl, mac_ul, mac_dl, sched_events, ready, tasks, proc, created, known, triggers,
                       phy, notifier>>
    BY DEF SchedNotify, sched_unchanged, DuInv, Defer, rlf_vars, cu_vars
  <1>2. IndexInv(i) /\ ProcInv(i) /\ ResponseInv(i) /\ ResumeInv(i) /\ NotifierInv(i)
    BY DEF DuInv, IndexInv
  <1>3. At(i, "sched") /\ ~EventDue(i) /\ ~ReadyDue(i) /\ ~ready[i] /\ kind \in Removals
    BY <1>1, <1>2, ZenonT(40) DEF ResponseInv
  <1>4. /\ u # None /\ u \in Ues /\ tasks[i] = <<>> /\ triggers[u] > 0 /\ proc[i].parts = D1 /\ Contexts(i, u, u, u, u)
    <2>1. /\ u # None /\ tasks[i] = <<>> /\ triggers[u] > 0 /\ proc[i].parts = D1 /\ Contexts(i, u, u, u, u)
      BY <1>1, <1>2, <1>3, Where DEF Removals
    <2>. QED  BY <1>1, <2>1 DEF DuTypeOK
  <1>5. sched[i] = u
    BY <1>4 DEF Contexts
  <1>6. /\ ReadyDue(i)' /\ Once(ctrl_queue', {"ready"}, i) /\ ResumeInv(i)' /\ NotifierInv(i)'
        /\ \E t \in Tasks : t.ue_index = i /\ ctrl_queue' = Append(ctrl_queue, t)
    BY <1>1, <1>2, <1>3, <1>4, <1>5, ReadyQueued
  <1>7. ~EventDue(i)' /\ At(i, "sched")' /\ i \notin ues_to_rem'
    BY <1>1, <1>3 DEF EventDue, At
  <1>8. ResponseInv(i)'
    BY <1>1, <1>2, <1>3, <1>4, <1>6, <1>7, ZenonT(40) DEF ResponseInv
  <1>9. ProcInv(i)'
    <2>1. Contexts(i, u, u, u, u)'
      BY <1>1, <1>4 DEF Contexts
    <2>. QED  BY <1>1, <1>3, <1>4, <2>1 DEF ProcInv, Removing
  <1>10. TasksInv(i)'
    BY <1>1, <1>2, TasksKept
  <1>11. IndexInv(i)'
    BY <1>6, <1>8, <1>9, <1>10 DEF IndexInv
  <1>12. SchedulerOf(i)
    <2>1. sched' = [sched EXCEPT ![i] = sched'[i]] /\ sched'[i] \in Ues \union {None}
      BY <1>1 DEF DuTypeOK
    <2>2. /\ ues_to_rem' \subseteq Indexes /\ erasing' \in Indexes \union {None}
          /\ \A j \in Indexes \ {i} : (j \in ues_to_rem' <=> j \in ues_to_rem) /\ (erasing' = j <=> erasing = j)
      BY <1>1 DEF DuTypeOK, DuUeAssumption
    <2>. QED  BY <1>1, <1>6, <2>1, <2>2, ZenonT(40) DEF SchedulerOf
  <1>. QED  BY <1>1, <1>11, <1>12, SchedulerStep

\* Then it erases the UE: the MAC has not gone on to its DL part, or is at it.
LEMMA SchedEraseKeepsInv ==
    ASSUME DuUeAssumption, DuInv, SchedErase
    PROVE  DuInv'
  <1>0. PICK i : i = erasing
    OBVIOUS
  <1>. DEFINE u == du_db[i]
              kind == proc[i].kind
  <1>1. /\ DuTypeOK /\ failed' = None /\ i \in Indexes /\ erasing = i /\ erasing' = None
        /\ sched' = [sched EXCEPT ![i] = None]
        /\ UNCHANGED <<du_db, f1ap_ues, mac_ctrl, mac_ul, mac_dl, ues_to_rem, sched_events, ready, tasks, proc, ctrl_queue,
                       created, known, triggers, phy, notifier>>
    BY <1>0 DEF SchedErase, sched_unchanged, DuInv, DuTypeOK, rlf_vars, cu_vars
  <1>2. IndexInv(i) /\ ProcInv(i) /\ ResponseInv(i) /\ ResumeInv(i) /\ NotifierInv(i) /\ erasing' # i
    BY <1>1 DEF DuInv, IndexInv, DuUeAssumption
  <1>3. ~EventDue(i) /\ i \notin ues_to_rem /\ kind \in Removals /\ proc[i].parts \in {D1, D2}
    BY <1>1, <1>2, ZenonT(40) DEF ResponseInv
  <1>4. u # None /\ tasks[i] = <<>> /\ triggers[u] > 0 /\ Contexts(i, u, u, u, u)
    <2>1. At(i, "sched") \/ At(i, "dl")
      BY <1>3, StageFacts DEF At
    <2>. QED  BY <1>1, <1>2, <1>3, <2>1, Where DEF Removals
  <1>5. (EventDue(i)' <=> EventDue(i)) /\ (ReadyDue(i)' <=> ReadyDue(i)) /\ (At(i, "sched")' <=> At(i, "sched"))
    BY <1>1 DEF EventDue, ReadyDue, At
  <1>6. ResponseInv(i)'
    BY <1>1, <1>2, <1>5, ZenonT(40) DEF ResponseInv
  <1>7. ResumeInv(i)' /\ NotifierInv(i)'
    BY <1>1, <1>2 DEF ResumeInv, NotifierInv, At
  <1>8. ProcInv(i)'
    <2>1. sched'[i] = None
      BY <1>1 DEF DuTypeOK
    <2>2. Contexts(i, u, u, u, None)'
      BY <1>1, <1>4, <2>1 DEF Contexts
    <2>. QED  BY <1>1, <1>2, <1>3, <1>4, <1>5, <2>2 DEF ProcInv, Removing
  <1>9. TasksInv(i)'
    BY <1>1, <1>2, TasksKept
  <1>10. IndexInv(i)'
    BY <1>6, <1>7, <1>8, <1>9 DEF IndexInv
  <1>11. SchedulerOf(i)
    <2>1. sched' = [sched EXCEPT ![i] = sched'[i]] /\ sched'[i] \in Ues \union {None}
      BY <1>1 DEF DuTypeOK
    <2>2. \A j \in Indexes \ {i} : erasing' # j /\ erasing # j
      BY <1>1 DEF DuUeAssumption
    <2>. QED  BY <1>1, <2>1, <2>2 DEF SchedulerOf, DuTypeOK
  <1>. QED  BY <1>1, <1>10, <1>11, SchedulerStep

-----------------------------------------------------------------------------
(* The steps of the threads of the PHY *)

Reports == [pc : {"idle", "count", "notify"}, ue_index : Indexes \union {None}, ack : BOOLEAN]

\* A report changes where its thread stands and may queue an RLF task.
LEMMA ReportStep ==
    ASSUME DuUeAssumption, DuInv, phy' \in [Dirs -> Reports], PhyInv', failed' = None,
           UNCHANGED <<phy_unchanged, notifier>>,
           \/ ctrl_queue' = ctrl_queue
           \/ \E i \in Indexes : /\ notifier[i] \in Ues
                                 /\ ctrl_queue' = Append(ctrl_queue, Task("rlf", i, notifier[i]))
    PROVE  DuInv'
  <1>1. DuTypeOK /\ UesDistinct /\ ctrl_queue \in Seq(Tasks)
    BY DEF DuInv, DuTypeOK
  <1>2. UNCHANGED <<du_db, f1ap_ues, mac_ctrl, mac_ul, mac_dl, sched, ues_to_rem, erasing, sched_events, ready, tasks, proc,
                    created, known, triggers, notifier>>
    BY DEF phy_unchanged, db_vars, rem_vars, cu_vars
  <1>3. UesDistinct'
    BY <1>1, <1>2 DEF UesDistinct
  <1>4. CASE ctrl_queue' = ctrl_queue
    <2>1. DuTypeOK'
      BY <1>1, <1>2, <1>4 DEF DuTypeOK, Reports
    <2>2. \A j \in Indexes : Untouched(j)
      BY <1>2, <1>4 DEF Untouched, QueueStep
    <2>3. \A j \in Indexes : IndexInv(j)'
      BY <1>1, <2>2, IndexFrame DEF DuInv, DuTypeOK
    <2>. QED  BY <1>3, <2>1, <2>3 DEF DuInv, DuAssertionsHold
  <1>5. ASSUME NEW i \in Indexes, notifier[i] \in Ues, ctrl_queue' = Append(ctrl_queue, Task("rlf", i, notifier[i]))
        PROVE  DuInv'
    <2>1. ProcInv(i) /\ ResponseInv(i) /\ ResumeInv(i) /\ NotifierInv(i) /\ IndexInv(i)
      BY DEF DuInv, IndexInv
    <2>2. notifier[i] = mac_dl[i] /\ mac_dl[i] = du_db[i] /\ du_db[i] # None
      <3>1. mac_dl[i] = notifier[i] /\ mac_dl[i] # None
        BY <1>5, <2>1 DEF NotifierInv, DuUeAssumption
      <3>. QED  BY <2>1, <3>1, Nested
    <2>3. PICK t : t = Task("rlf", i, du_db[i])
      OBVIOUS
    <2>4. /\ t \in Tasks /\ Matches(t, {"rlf"}, i) /\ ~Matches(t, {"resume"}, i) /\ ~Matches(t, {"ready"}, i)
          /\ t.ue_index = i /\ t.ue = du_db[i]
      BY <1>5, <2>2, <2>3 DEF Task, Tasks, Matches
    <2>5. ctrl_queue' = Append(ctrl_queue, t)
      BY <1>5, <2>2, <2>3
    <2>6. /\ Has(ctrl_queue', {"ready"}, i) <=> Has(ctrl_queue, {"ready"}, i)
          /\ Once(ctrl_queue', {"ready"}, i)
          /\ Has(ctrl_queue', {"resume"}, i) <=> Has(ctrl_queue, {"resume"}, i)
          /\ Once(ctrl_queue', {"resume"}, i)
          /\ Owned(ctrl_queue', {"rlf"}, i, du_db[i])
      BY <1>1, <2>1, <2>4, <2>5, AppendFacts DEF ResponseInv, ResumeInv, NotifierInv
    <2>7. ResponseInv(i)'
      <3>1. (ReadyDue(i)' <=> ReadyDue(i)) /\ (EventDue(i)' <=> EventDue(i)) /\ (At(i, "sched")' <=> At(i, "sched"))
        BY <1>2, <2>6 DEF ReadyDue, EventDue, At
      <3>. QED  BY <1>2, <2>1, <2>6, <3>1, ZenonT(40) DEF ResponseInv
    <2>8. ResumeInv(i)'
      BY <1>2, <2>1, <2>6 DEF ResumeInv, At
    <2>9. NotifierInv(i)'
      BY <1>2, <2>1, <2>2, <2>6 DEF NotifierInv
    <2>10. TasksInv(i)'
      BY <1>2, <2>1, TasksKept
    <2>11. ProcInv(i)'
      <3>1. EventDue(i)' <=> EventDue(i)
        BY <1>2 DEF EventDue
      <3>2. Idling(i) => Idling(i)'
        BY <1>2 DEF Idling, Contexts
      <3>3. Creating(i) => Creating(i)'
        BY <1>2, <3>1 DEF Creating, Contexts
      <3>4. SettingUp(i) => SettingUp(i)'
        BY <1>2 DEF SettingUp, Contexts
      <3>5. Removing(i) => Removing(i)'
        BY <1>2, <3>1 DEF Removing, Contexts
      <3>. QED  BY <2>1, <3>2, <3>3, <3>4, <3>5 DEF ProcInv
    <2>12. IndexInv(i)'
      BY <2>7, <2>8, <2>9, <2>10, <2>11 DEF IndexInv
    <2>13. \A j \in Indexes \ {i} : Untouched(j)
      BY <1>2, <2>4, <2>5 DEF Untouched, QueueStep
    <2>14. DuTypeOK'
      <3>1. ctrl_queue' \in Seq(Tasks)
        BY <1>1, <2>4, <2>5, AppendFacts
      <3>. QED  BY <1>1, <1>2, <3>1 DEF DuTypeOK, Reports
    <2>. QED  BY <1>3, <2>12, <2>13, <2>14, OneIndex DEF DuAssertionsHold
  <1>. QED  BY <1>4, <1>5

\* A thread of the PHY counts a CRC or HARQ report and may call the notifier.
LEMMA PhyKeepsInv ==
    ASSUME DuUeAssumption, DuInv, Phy
    PROVE  DuInv'
  <1>1. PICK d \in Dirs : ReportCount(d) \/ ReportNotify(d) \/ \E i \in Indexes : ReportLookup(d, i)
    BY DEF Phy
  <1>2. DuTypeOK /\ PhyInv /\ failed = None /\ phy \in [Dirs -> Reports] /\ phy[d] \in Reports
    BY <1>1 DEF DuInv, DuTypeOK, Reports, ReportCount, ReportNotify, ReportLookup
  <1>3. Idle \in Reports /\ Idle.pc = "idle"
    BY DEF Idle, Reports
  <1>4. ASSUME NEW i \in Indexes, ReportLookup(d, i)
        PROVE  DuInv'
    <2>1. PICK ack \in BOOLEAN : phy' = [phy EXCEPT ![d] = [pc |-> "count", ue_index |-> i, ack |-> ack]]
      BY <1>4 DEF ReportLookup, PhyLookup
    <2>2. PICK r : r = [pc |-> "count", ue_index |-> i, ack |-> ack]
      OBVIOUS
    <2>3. r \in Reports /\ r.ue_index = i
      BY <2>2 DEF Reports
    <2>4. phy' = [phy EXCEPT ![d] = r]
      BY <2>1, <2>2
    <2>5. phy' \in [Dirs -> Reports] /\ \A e \in Dirs : phy'[e] = IF e = d THEN r ELSE phy[e]
      BY <1>2, <2>3, <2>4
    <2>6. /\ failed' = None /\ ctrl_queue' = ctrl_queue /\ UNCHANGED <<phy_unchanged, notifier>>
          /\ mac_ctrl[i] # None /\ (sched[i] # None \/ proc[i].kind \in {"delete", "release"})
      BY <1>2, <1>4 DEF ReportLookup, PhyLookup
    <2>7. notifier[i] # Uninitialised
      <3>1. ProcInv(i) /\ NotifierInv(i)
        BY DEF DuInv, IndexInv
      <3>2. CASE sched[i] # None
        <4>1. mac_dl[i] # None /\ mac_dl[i] \in Ues
          BY <1>2, <3>1, <3>2, Nested DEF DuTypeOK
        <4>. QED  BY <3>1, <4>1 DEF NotifierInv, DuUeAssumption
      <3>3. CASE proc[i].kind \in {"delete", "release"}
        BY <3>1, <3>3 DEF NotifierInv, Removals
      <3>. QED  BY <2>6, <3>2, <3>3
    <2>8. PhyInv'
      BY <1>2, <2>3, <2>5, <2>6, <2>7 DEF PhyInv
    <2>. QED  BY <2>5, <2>6, <2>8, ReportStep
  <1>5. CASE ReportCount(d)
    <2>1. /\ failed' = None /\ ctrl_queue' = ctrl_queue /\ UNCHANGED <<phy_unchanged, notifier>> /\ phy[d].pc = "count"
      BY <1>2, <1>5 DEF ReportCount, PhyCount
    <2>2. PICK r : r = [phy[d] EXCEPT !.pc = "notify"]
      OBVIOUS
    <2>3. r \in Reports /\ r.ue_index = phy[d].ue_index
      BY <1>2, <2>2 DEF Reports
    <2>4. phy' = [phy EXCEPT ![d] = r] \/ phy' = [phy EXCEPT ![d] = Idle]
      BY <1>5, <2>2 DEF ReportCount, PhyCount
    <2>5. PICK w \in Reports : phy' = [phy EXCEPT ![d] = w] /\ (w.pc # "idle" => w.ue_index = phy[d].ue_index)
      BY <1>3, <2>3, <2>4
    <2>6. phy' \in [Dirs -> Reports] /\ \A e \in Dirs : phy'[e] = IF e = d THEN w ELSE phy[e]
      BY <1>2, <2>5
    <2>7. PhyInv'
      BY <1>2, <2>1, <2>5, <2>6 DEF PhyInv
    <2>. QED  BY <2>1, <2>6, <2>7, ReportStep
  <1>6. CASE ReportNotify(d)
    <2>1. PICK u \in Ues \cup {None, Uninitialised} :
             /\ PhyNotify(d, u)
             /\ (u \in Ues /\ Defer(Task("rlf", phy[d].ue_index, u))) \/ UNCHANGED ctrl_queue
             /\ failed' = IF u = Uninitialised THEN "uninitialised notifier" ELSE failed
      BY <1>6 DEF ReportNotify
    <2>2. /\ UNCHANGED <<phy_unchanged, notifier>> /\ phy[d].pc = "notify" /\ phy' = [phy EXCEPT ![d] = Idle]
          /\ u = notifier[phy[d].ue_index]
      BY <1>6, <2>1 DEF ReportNotify, PhyNotify
    <2>3. phy[d].ue_index \in Indexes /\ u # Uninitialised
      BY <1>2, <2>2 DEF PhyInv
    <2>4. failed' = None
      BY <1>2, <2>1, <2>3
    <2>5. phy' \in [Dirs -> Reports] /\ \A e \in Dirs : phy'[e] = IF e = d THEN Idle ELSE phy[e]
      BY <1>2, <1>3, <2>2
    <2>6. PhyInv'
      BY <1>2, <1>3, <2>2, <2>5 DEF PhyInv
    <2>7. \/ ctrl_queue' = ctrl_queue
          \/ \E i \in Indexes : /\ notifier[i] \in Ues
                                /\ ctrl_queue' = Append(ctrl_queue, Task("rlf", i, notifier[i]))
      BY <2>1, <2>2, <2>3 DEF Defer
    <2>. QED  BY <2>2, <2>4, <2>5, <2>6, <2>7, ReportStep
  <1>. QED  BY <1>1, <1>4, <1>5, <1>6

-----------------------------------------------------------------------------
(* The theorems *)

\* The DU starts without UEs.
LEMMA InitInv ==
    ASSUME DuUeAssumption, Init
    PROVE  DuInv
  <1>1. \A kinds, j : ~Has(<<>>, kinds, j)
    BY DEF Has
  <1>2. \A kinds, j, u : Once(<<>>, kinds, j) /\ Owned(<<>>, kinds, j, u)
    BY DEF Once, Owned
  <1>3. \A j, kind, u : Expected(<<>>, j, kind, u)
    BY DEF Expected
  <1>4. DuTypeOK
    <2>1. NoProc \in [kind : Procedures \union {"none"}, parts : Stages]
      BY DEF NoProc, Stages
    <2>2. proc \in [Indexes -> [kind : Procedures \union {"none"}, parts : Stages]]
      BY <2>1 DEF Init
    <2>3. phy \in [Dirs -> [pc : {"idle", "count", "notify"}, ue_index : Indexes \union {None}, ack : BOOLEAN]]
      BY DEF Init, RlfInit, Idle
    <2>4. tasks \in [Indexes -> Seq(Tasks)] /\ sched_events \in Seq(Tasks) /\ ctrl_queue \in Seq(Tasks)
      BY DEF Init
    <2>. QED  BY <2>2, <2>3, <2>4 DEF DuTypeOK, Init, RlfInit, Nobody
  <1>5. DuAssertionsHold /\ UesDistinct
    BY DEF Init, DuAssertionsHold, UesDistinct, Nobody
  <1>6. PhyInv
    BY DEF Init, RlfInit, PhyInv, Idle
  <1>7. ASSUME NEW i \in Indexes
        PROVE  IndexInv(i)
    <2>1. /\ du_db[i] = None /\ proc[i] = NoProc /\ tasks[i] = <<>> /\ notifier[i] = Uninitialised /\ mac_dl[i] = None
          /\ i \notin ues_to_rem /\ sched_events = <<>> /\ ctrl_queue = <<>> /\ Contexts(i, None, None, None, None)
          /\ erasing # i
      BY DEF Init, RlfInit, Nobody, Contexts, DuUeAssumption
    <2>2. ~ready[i]
      BY DEF Init
    <2>3. proc[i].kind = "none" /\ proc[i].parts = <<>>
      BY <2>1 DEF NoProc
    <2>4. ~At(i, "sched") /\ ~At(i, "resume") /\ "none" \notin Removals
      BY <2>3 DEF At, Removals
    <2>5. ProcInv(i) /\ TasksInv(i)
      BY <2>1 DEF ProcInv, Idling, TasksInv
    <2>6. ResponseInv(i)
      BY <1>1, <1>2, <1>3, <2>1, <2>2, <2>4, ZenonT(40) DEF ResponseInv, EventDue, ReadyDue
    <2>7. ResumeInv(i)
      BY <1>1, <1>2, <2>1, <2>4, ZenonT(40) DEF ResumeInv
    <2>8. NotifierInv(i)
      BY <1>1, <1>2, <2>1, <2>3, <2>4 DEF NotifierInv, DuUeAssumption
    <2>. QED  BY <2>5, <2>6, <2>7, <2>8 DEF IndexInv
  <1>. QED  BY <1>4, <1>5, <1>6, <1>7 DEF DuInv

\* Every step of every thread keeps the invariant.
LEMMA StepInv ==
    ASSUME DuUeAssumption, MaxTriggers <= 1, DuInv, [Next]_duue_vars
    PROVE  DuInv'
  <1>1. CASE Control
    BY <1>1, RunResumeKeepsInv, RunReadyKeepsInv, RunRlfKeepsInv, RunSequencerKeepsInv, PassReadyKeepsInv,
       ReleaseTimeoutKeepsInv DEF Control
  <1>2. CASE Executors
    BY <1>2, UeStepKeepsInv, UlStepKeepsInv, DlStepKeepsInv DEF Executors
  <1>3. CASE Scheduler
    BY <1>3, SchedEventKeepsInv, SchedHarqsKeepsInv, SchedNotifyKeepsInv, SchedEraseKeepsInv DEF Scheduler
  <1>4. CASE Phy
    BY <1>4, PhyKeepsInv
  <1>5. CASE Cu
    BY <1>5, CreateUeKeepsInv, CuKeepsInv DEF Cu
  <1>6. CASE UNCHANGED duue_vars
    BY <1>6, StutterKeepsInv DEF duue_vars, db_vars, rem_vars, cu_vars, rlf_vars, inv_vars, DuInv, DuAssertionsHold
  <1>. QED  BY <1>1, <1>2, <1>3, <1>4, <1>5, <1>6 DEF Next

\* Whatever the number of indexes and UEs, and however the control thread, the
\* MAC and UE executors, the scheduler, the PHY threads and the CU interleave,
\* the contexts, queues and procedures of the DU are related as DuInv says, as
\* long as the CU asks for the removal of a UE once.
THEOREM DuInvariance ==
    ASSUME MaxTriggers <= 1
    PROVE  Spec => []DuInv
  <1>1. Init => DuInv
    BY InitInv, DuUeAssumption
  <1>2. DuInv /\ [Next]_duue_vars => DuInv'
    BY StepInv, DuUeAssumption
  <1>. QED  BY <1>1, <1>2, PTL DEF Spec

\* The contexts of a UE are nested at every moment: the scheduler never serves a
\* UE that the MAC no longer has (mac_ue_create and mac_ue_delete procedures).
THEOREM ContextsStayNested ==
    ASSUME MaxTriggers <= 1
    PROVE  Spec => []ContextsNested
  <1>1. DuInv => ContextsNested
    BY Nested, DuUeAssumption DEF DuInv, IndexInv, ContextsNested
  <1>. QED  BY <1>1, DuInvariance, PTL

\* While the CU asks once for the removal of a UE, two things may go wrong: an UL
\* CCCH indication meets no free UE index, or a release procedure ends by reading
\* the F1AP UE it erased (Unguarded).  Apart from those no srsran_assert of the UE
\* managers fails, no table refuses an insertion or a removal, no procedure starts
\* on a destroyed F1AP UE, and no notifier is called that was never set.
THEOREM AssertionsHold ==
    ASSUME MaxTriggers <= 1
    PROVE  Spec => []DuAssertionsHold
  <1>1. DuInv => DuAssertionsHold
    BY DEF DuInv
  <1>. QED  BY <1>1, DuInvariance, PTL

\* While the CU asks once for the removal of a UE, the notifier whose on_rlf_detected
\* posted a task, and the UE that owns it, still exist when the task runs: the
\* procedure that removes this UE resumes on the same executor, behind the task.
\* (Which UE's KOs were counted before is not said: the notifier is read later.)
THEOREM RlfNotifiersOutliveTheirTasks ==
    ASSUME MaxTriggers <= 1
    PROVE  Spec => []RlfNotifierOutlivesTask
  <1>1. ASSUME DuInv
        PROVE  RlfNotifierOutlivesTask
    <2>1. \A i \in Indexes : notifier[i] \in Ues => mac_dl[i] = notifier[i]
      BY <1>1 DEF DuInv, IndexInv, NotifierInv
    <2>2. ASSUME NEW k \in DOMAIN ctrl_queue, ctrl_queue[k].kind = "rlf"
          PROVE  du_db[ctrl_queue[k].ue_index] = ctrl_queue[k].ue /\ f1ap_ues[ctrl_queue[k].ue_index] = ctrl_queue[k].ue
      <3>1. PICK i : i = ctrl_queue[k].ue_index
        OBVIOUS
      <3>2. ctrl_queue \in Seq(Tasks)
        BY <1>1 DEF DuInv, DuTypeOK
      <3>3. ctrl_queue[k] \in Tasks
        BY <3>2
      <3>4. i \in Indexes
        BY <3>1, <3>3 DEF Tasks
      <3>5. ProcInv(i) /\ NotifierInv(i)
        BY <1>1, <3>4 DEF DuInv, IndexInv
      <3>6. Matches(ctrl_queue[k], {"rlf"}, i)
        BY <2>2, <3>1 DEF Matches
      <3>7. Has(ctrl_queue, {"rlf"}, i) /\ ctrl_queue[k].ue = du_db[i]
        BY <3>5, <3>6, ZenonT(40) DEF NotifierInv, Has, Owned
      <3>8. f1ap_ues[i] = du_db[i]
        <4>1. CASE mac_dl[i] = du_db[i]
          BY <3>4, <3>5, <3>7, <4>1, Nested, DuUeAssumption DEF NotifierInv
        <4>2. CASE proc[i].parts = D2r
          <5>1. At(i, "resume")
            BY <4>2, StageFacts DEF At
          <5>. QED  BY <3>4, <3>5, <5>1, Where, DuUeAssumption DEF Contexts
        <4>. QED  BY <3>5, <3>7, <4>1, <4>2 DEF NotifierInv
      <3>. QED  BY <3>1, <3>7, <3>8
    <2>. QED  BY <2>1, <2>2 DEF RlfNotifierOutlivesTask
  <1>. QED  BY <1>1, DuInvariance, PTL

(* What the count of the responses needs of cardinalities. *)
INSTANCE FiniteSetTheorems

\* A queue with one such task counts one, and no other.
LEMMA CountOnce ==
    ASSUME NEW q, NEW kinds, NEW i, Once(q, kinds, i)
    PROVE  LET S == {k \in DOMAIN q : q[k].ue_index = i /\ q[k].kind \in kinds} IN
           /\ Has(q, kinds, i) => Cardinality(S) = 1
           /\ ~Has(q, kinds, i) => Cardinality(S) = 0
  <1>. DEFINE S == {k \in DOMAIN q : q[k].ue_index = i /\ q[k].kind \in kinds}
  <1>1. ASSUME Has(q, kinds, i)
        PROVE  Cardinality(S) = 1
    <2>1. PICK k \in DOMAIN q : Matches(q[k], kinds, i)
      BY <1>1 DEF Has
    <2>2. S = {k}
      BY <2>1 DEF Once, Matches
    <2>. QED  BY <2>2, FS_Singleton
  <1>2. ASSUME ~Has(q, kinds, i)
        PROVE  Cardinality(S) = 0
    <2>1. S = {}
      BY <1>2 DEF Has, Matches
    <2>. QED  BY <2>1, FS_EmptySet
  <1>. QED  BY <1>1, <1>2

\* A procedure that waits for the scheduler has exactly one response on its way,
\* and an index that does not wait has none (srs_sched_config_adapter).
THEOREM ResponsesAreAwaited ==
    ASSUME MaxTriggers <= 1
    PROVE  Spec => []ResponseAwaited
  <1>1. ASSUME DuInv
        PROVE  ResponseAwaited
    <2>. SUFFICES ASSUME NEW i \in Indexes
                  PROVE  Cardinality({k \in DOMAIN sched_events : sched_events[k].ue_index = i
                                        /\ sched_events[k].kind \in {"create", "setup", "delete", "release"}})
                         + Cardinality(ues_to_rem \cap {i})
                         + Cardinality({k \in DOMAIN ctrl_queue : ctrl_queue[k].ue_index = i /\ ctrl_queue[k].kind \in {"ready"}})
                         + (IF ready[i] THEN 1 ELSE 0)
                         = IF At(i, "sched") THEN 1 ELSE 0
      BY ZenonT(40) DEF ResponseAwaited
    <2>1. ResponseInv(i)
      BY <1>1 DEF DuInv, IndexInv
    <2>2. PICK a : a = Cardinality({k \in DOMAIN sched_events : sched_events[k].ue_index = i
                                        /\ sched_events[k].kind \in {"create", "setup", "delete", "release"}})
      OBVIOUS
    <2>3. PICK b : b = Cardinality(ues_to_rem \cap {i})
      OBVIOUS
    <2>4. PICK c : c = Cardinality({k \in DOMAIN ctrl_queue : ctrl_queue[k].ue_index = i /\ ctrl_queue[k].kind \in {"ready"}})
      OBVIOUS
    <2>5. PICK d : d = IF ready[i] THEN 1 ELSE 0
      OBVIOUS
    <2>6. (EventDue(i) => a = 1) /\ (~EventDue(i) => a = 0)
      <3>1. Procedures = {"create", "setup", "delete", "release"}
        BY DEF Procedures
      <3>2. Once(sched_events, Procedures, i)
        BY <2>1 DEF ResponseInv
      <3>. QED  BY <2>2, <3>1, <3>2, CountOnce DEF EventDue
    <2>7. (i \in ues_to_rem => b = 1) /\ (i \notin ues_to_rem => b = 0)
      <3>1. (i \in ues_to_rem => ues_to_rem \cap {i} = {i}) /\ (i \notin ues_to_rem => ues_to_rem \cap {i} = {})
        OBVIOUS
      <3>. QED  BY <2>3, <3>1, FS_Singleton, FS_EmptySet
    <2>8. (ReadyDue(i) => c = 1) /\ (~ReadyDue(i) => c = 0)
      <3>1. Once(ctrl_queue, {"ready"}, i)
        BY <2>1 DEF ResponseInv
      <3>. QED  BY <2>4, <3>1, CountOnce DEF ReadyDue
    <2>9. (ready[i] => d = 1) /\ (~ready[i] => d = 0)
      BY <2>5
    <2>10. CASE ~At(i, "sched")
      <3>1. ~EventDue(i) /\ i \notin ues_to_rem /\ ~ReadyDue(i) /\ ~ready[i]
        BY <2>1, <2>10, ZenonT(40) DEF ResponseInv
      <3>2. a = 0 /\ b = 0 /\ c = 0 /\ d = 0
        BY <2>6, <2>7, <2>8, <2>9, <3>1
      <3>. QED  BY <2>2, <2>3, <2>4, <2>5, <2>10, <3>2
    <2>11. CASE At(i, "sched")
      <3>1. \/ EventDue(i) /\ i \notin ues_to_rem /\ ~ReadyDue(i) /\ ~ready[i]
            \/ ~EventDue(i) /\ i \in ues_to_rem /\ ~ReadyDue(i) /\ ~ready[i]
            \/ ~EventDue(i) /\ i \notin ues_to_rem /\ ReadyDue(i) /\ ~ready[i]
            \/ ~EventDue(i) /\ i \notin ues_to_rem /\ ~ReadyDue(i) /\ ready[i]
        BY <2>1, <2>11, ZenonT(40) DEF ResponseInv
      <3>2. a + b + c + d = 1
        BY <2>6, <2>7, <2>8, <2>9, <3>1
      <3>. QED  BY <2>2, <2>3, <2>4, <2>5, <2>11, <3>2
    <2>. QED  BY <2>10, <2>11
  <1>. QED  BY <1>1, DuInvariance, PTL
=============================================================================
