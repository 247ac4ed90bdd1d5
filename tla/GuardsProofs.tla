---------------------------- MODULE GuardsProofs ----------------------------
(***************************************************************************)
(* Why a suspended principal is out, why a request is admitted only on     *)
(* what stood while it was judged, why nobody loses a session without      *)
(* cause and why a session that works carries the role its owner has: for  *)
(* any registry, rows, guards, and number of logins, requests and calls.   *)
(***************************************************************************)
EXTENDS Guards, TLAPS

-----------------------------------------------------------------------------
(* The resolver. *)

\* A permission that survives the overrides is the role's own or granted, and not denied.
LEMMA Overridden ==
    ASSUME NEW perms, NEW overrides, NEW want \in ApplyOverrides(perms, overrides)
    PROVE  /\ want \in perms \/ \E x \in overrides : x.action = "grant" /\ x.permission = want
           /\ ~\E x \in overrides : x.action = "deny" /\ x.permission = want
  BY DEF ApplyOverrides

\* The resolver denies a row that is missing or suspended, asks for sessions to be ended
\* only for a suspension, and satisfies a guard only with what the row grants.
LEMMA Resolution ==
    ASSUME NEW r \in Opt(AclRow), declared \subseteq RoleName
    PROVE  /\ Resolve(r) \in Decision
           /\ Resolve(r).allowed => r # None /\ ~r.suspended /\ Resolve(r).role = r.role
           /\ Resolve(r).revoke => r # None /\ r.suspended
           /\ \A shape \in Shape : Satisfies(Resolve(r), shape) => Grants(r, shape)
<1>1. \A b \in BOOLEAN : /\ Denied(b) \in Decision
                         /\ ~Denied(b).allowed /\ (Denied(b).revoke <=> b)
  BY DEF Denied, NoDecision, Decision, Opt
<1>2. Denied(FALSE) \in Decision /\ Denied(TRUE) \in Decision /\ ~Denied(FALSE).revoke
      /\ ~Denied(FALSE).allowed /\ ~Denied(TRUE).allowed
  BY <1>1
<1>3. CASE r = None \/ r.suspended \/ r.role \notin declared
  BY <1>2, <1>3 DEF Resolve, Satisfies
<1>4. CASE r # None /\ ~r.suspended /\ r.role \in declared
  <2>1. r \in AclRow /\ r.role \in RoleName
    BY <1>4 DEF Opt
  <2>2. PICK e : e = ApplyOverrides(RolePerms[r.role], r.overrides)
    OBVIOUS
  <2>3. Resolve(r) = [allowed |-> TRUE, revoke |-> FALSE, role |-> r.role, perms |-> e]
    BY <1>4, <2>2 DEF Resolve
  <2>4. e \subseteq STRING
    <3>1. RolePerms[r.role] \subseteq STRING
      BY <2>1, RegistryAssumption
    <3>2. \A x \in r.overrides : x.permission \in STRING
      BY <2>1 DEF AclRow
    <3> QED
      BY <2>2, <3>1, <3>2 DEF ApplyOverrides
  <2>5. Resolve(r) \in Decision
    BY <2>1, <2>3, <2>4 DEF Decision, Opt, AclRow
  <2>6. ASSUME NEW shape \in Shape, Satisfies(Resolve(r), shape)
        PROVE  Grants(r, shape)
    <3>1. shape.kind = "permission" => shape.want \in e
      BY <2>3, <2>6 DEF Satisfies
    <3>2. shape.kind = "role" => shape.want = r.role
      BY <2>3, <2>6 DEF Satisfies
    <3> QED
      BY <1>4, <2>2, <3>1, <3>2, Overridden DEF Grants
  <2>7. ~Resolve(r).revoke /\ Resolve(r).role = r.role
    BY <2>3
  <2> QED
    BY <1>4, <2>5, <2>6, <2>7
<1> QED
  BY <1>3, <1>4

-----------------------------------------------------------------------------
(* What a step does to the tasks. *)

Task == Session \cup GuardReq

\* Become gives one task a new record and leaves the others as they are.
LEMMA BecomeEffect ==
    ASSUME TypeOK, NEW t \in Task, NEW q \in TaskRecord, Become(t, q)
    PROVE  /\ task' \in [Task -> TaskRecord] /\ task'[t] = q
           /\ \A u \in Task : u # t => task'[u] = task[u]
  BY DEF TypeOK, Task, Become

\* NoTask, answered, is a task.
LEMMA AnswerType ==
    ASSUME NEW code \in Code
    PROVE  /\ [NoTask EXCEPT !.pc = "done", !.code = code] \in TaskRecord
           /\ [NoTask EXCEPT !.pc = "done", !.code = code].pc = "done"
           /\ [NoTask EXCEPT !.pc = "done", !.code = code].code = code
  BY DEF NoTask, TaskRecord, Opt, Decision, NoDecision

\* A task whose principal's row is written remembers it, and is otherwise what it was.
LEMMA WitnessEffect ==
    ASSUME TypeOK, NEW t \in Task, NEW p, NEW r, NEW b, NEW q, q = Witness(t, p, r, b)
    PROVE  /\ q \in TaskRecord
           /\ q.pc = task[t].pc /\ q.p = task[t].p /\ q.shape = task[t].shape
           /\ q.dec = task[t].dec /\ q.code = task[t].code
           /\ q.barred => task[t].barred
           /\ task[t].granted => q.granted
           /\ t \in GuardReq /\ q.p = p /\ q.pc \notin {"idle", "done"} =>
                 (q.barred => p \in b) /\ (Grants(r, q.shape) => q.granted)
           /\ t \notin GuardReq => q = task[t]
<1>1. task[t] \in TaskRecord
  BY DEF TypeOK, Task
<1>2. CASE t \in GuardReq /\ task[t].p = p /\ task[t].pc \notin {"idle", "done"}
  <2>1. PICK x \in BOOLEAN : x <=> task[t].barred /\ p \in b
    OBVIOUS
  <2>2. PICK y \in BOOLEAN : y <=> task[t].granted \/ Grants(r, task[t].shape)
    OBVIOUS
  <2>3. q = [task[t] EXCEPT !.barred = task[t].barred /\ p \in b,
                            !.granted = task[t].granted \/ Grants(r, task[t].shape)]
    BY <1>2 DEF Witness
  <2>4. (task[t].barred /\ p \in b) = x
    BY <2>1
  <2>5. (task[t].granted \/ Grants(r, task[t].shape)) = y
    BY <2>2
  <2>6. q = [task[t] EXCEPT !.barred = x, !.granted = y]
    BY <2>3, <2>4, <2>5, Zenon
  <2>7. q \in TaskRecord
    BY <1>1, <2>6 DEF TaskRecord
  <2>8. /\ q.pc = task[t].pc /\ q.p = task[t].p /\ q.shape = task[t].shape
        /\ q.dec = task[t].dec /\ q.code = task[t].code /\ q.barred = x /\ q.granted = y
    BY <1>1, <2>6 DEF TaskRecord
  <2> QED
    BY <1>2, <2>1, <2>2, <2>7, <2>8
<1>3. CASE ~(t \in GuardReq /\ task[t].p = p /\ task[t].pc \notin {"idle", "done"})
  BY <1>1, <1>3 DEF Witness
<1> QED
  BY <1>2, <1>3


-----------------------------------------------------------------------------
(* What a step does to the invariant. *)

\* A step of one task that changes nothing else
LEMMA TaskStep ==
    ASSUME GuardInv, NEW t \in Task, NEW q \in TaskRecord, Become(t, q),
           UNCHANGED <<clock, config, row, sess, op, ghosts>>,
           t \in GuardReq => GuardInOrder(q),
           t \in Session => LoginInOrder(q)
    PROVE  GuardInv'
<1>1. /\ task' \in [Task -> TaskRecord] /\ task'[t] = q
      /\ \A u \in Task : u # t => task'[u] = task[u]
  BY BecomeEffect DEF GuardInv
<1>2. UNCHANGED <<clock, backend, declared, row, sess, op, banned, unheard, touched, mingled>>
  BY DEF config, ghosts
<1>3. TypeOK'
  BY <1>1, <1>2 DEF GuardInv, TypeOK, Task
<1>4. TasksInOrder'
  <2>1. ASSUME NEW g \in GuardReq
        PROVE  GuardInOrder(task[g])'
    <3> PICK x : x = task'[g]
      OBVIOUS
    <3>1. GuardInOrder(x)
      BY <1>1 DEF GuardInv, TasksInOrder, Task
    <3>2. GuardInOrder(x)'
      BY <1>2, <3>1 DEF GuardInOrder, Grants
    <3> QED
      BY <3>2 DEF GuardInOrder, Grants
  <2>2. ASSUME NEW s \in Session
        PROVE  LoginInOrder(task[s])'
    BY <1>1, <1>2 DEF GuardInv, TasksInOrder, LoginInOrder, Task
  <2> QED
    BY <2>1, <2>2 DEF TasksInOrder
<1>5. RowsStand' /\ OpsInOrder' /\ RoleKept' /\ NoPunishmentWithoutCause'
  BY <1>2 DEF GuardInv, RowsStand, OpsInOrder, RoleKept, NoPunishmentWithoutCause
<1> QED
  BY <1>3, <1>4, <1>5 DEF GuardInv

\* A task that is answered is in order.
LEMMA AnswerStep ==
    ASSUME GuardInv, NEW t \in Task, NEW code \in Code, Answer(t, code),
           UNCHANGED <<clock, config, row, sess, op, ghosts>>
    PROVE  GuardInv'
<1> PICK q : q = [NoTask EXCEPT !.pc = "done", !.code = code]
  OBVIOUS
<1>1. q \in TaskRecord /\ q.pc = "done"
  BY AnswerType
<1>2. GuardInOrder(q) /\ LoginInOrder(q)
  BY <1>1 DEF GuardInOrder, LoginInOrder
<1>3. Become(t, q)
  BY DEF Answer
<1> QED
  BY <1>1, <1>2, <1>3, TaskStep

\* Reading the row takes a guard to its verdict, and a login to its session or its end.
LEMMA ResolvedInOrder ==
    ASSUME GuardInv, NEW t \in Task, task[t].pc \in {"get", "reget"},
           NEW q, q = Resolved(t, row[task[t].p])
    PROVE  /\ q \in TaskRecord
           /\ t \in GuardReq => GuardInOrder(q)
           /\ t \in Session => LoginInOrder(q)
<1> PICK r : r = row[task[t].p]
  OBVIOUS
<1> PICK d : d = Resolve(r)
  OBVIOUS
<1>1. task[t] \in TaskRecord /\ task[t].p \in Principal
  BY DEF GuardInv, TypeOK, Task, TasksInOrder, GuardInOrder, LoginInOrder
<1>2. r \in Opt(AclRow)
  BY <1>1 DEF GuardInv, TypeOK
<1>3. /\ d \in Decision
      /\ d.allowed => r # None /\ ~r.suspended
      /\ d.revoke => r # None /\ r.suspended
      /\ \A shape \in Shape : Satisfies(d, shape) => Grants(r, shape)
  BY <1>2, Resolution DEF GuardInv, TypeOK
<1>4. CASE t \in GuardReq
  <2>1. q = [task[t] EXCEPT !.pc = "decide", !.dec = d]
    BY <1>4 DEF Resolved
  <2>2. q \in TaskRecord
    BY <1>1, <1>3, <2>1 DEF TaskRecord
  <2>3. /\ q.pc = "decide" /\ q.dec = d /\ q.p = task[t].p /\ q.shape = task[t].shape
        /\ q.barred = task[t].barred /\ q.granted = task[t].granted
    BY <1>1, <2>1 DEF TaskRecord
  <2>4. GuardInOrder(task[t])
    BY <1>4 DEF GuardInv, TasksInOrder
  <2>5. /\ task[t].shape \in Shape /\ task[t].shape.kind # "stepUp" /\ task[t].shape.resolver
        /\ task[t].barred => task[t].p \in banned
        /\ Grants(r, task[t].shape) => task[t].granted
    BY <2>4 DEF GuardInOrder
  <2>6. Satisfies(q.dec, q.shape) => q.granted
    BY <1>3, <2>3, <2>5
  <2>7. q.barred /\ q.dec.allowed => q.p \in unheard
    BY <1>1, <1>3, <2>3, <2>5 DEF GuardInv, RowsStand
  <2>8. q.dec.revoke => q.p \in touched
    BY <1>1, <1>3, <2>3 DEF GuardInv, RowsStand
  <2>9. GuardInOrder(q)
    BY <1>1, <2>3, <2>5, <2>6, <2>7, <2>8 DEF GuardInOrder
  <2> QED
    BY <1>4, <2>2, <2>9, GuardAssumption
<1>5. CASE t \notin GuardReq /\ d.allowed
  <2>1. q = [task[t] EXCEPT !.pc = "insert", !.dec = d]
    BY <1>5 DEF Resolved
  <2>2. q \in TaskRecord /\ q.pc = "insert" /\ q.p = task[t].p
    BY <1>1, <1>3, <2>1 DEF TaskRecord
  <2> QED
    BY <1>1, <1>3, <1>5, <2>2 DEF LoginInOrder
<1>6. CASE t \notin GuardReq /\ ~d.allowed
  <2>1. q = [NoTask EXCEPT !.pc = "done", !.code = "NAP_COMPLETE_ACL_DENIED"]
    BY <1>6 DEF Resolved
  <2>2. "NAP_COMPLETE_ACL_DENIED" \in Code
    BY DEF Code
  <2>3. q \in TaskRecord /\ q.pc = "done"
    BY <2>1, <2>2, AnswerType
  <2> QED
    BY <1>6, <2>3 DEF LoginInOrder
<1> QED
  BY <1>4, <1>5, <1>6

\* Who writes a row keeps the rows standing and the tasks in order, if a suspension in the
\* new row is a mark on its principal, and a ban that is heard is in the row.
LEMMA RowWritten ==
    ASSUME GuardInv, NEW p \in Principal, NEW r \in Opt(AclRow),
           row' = [row EXCEPT ![p] = r], UNCHANGED <<declared, sess>>,
           r = None => row[p] = None,
           r # None /\ r.suspended => p \in touched',
           touched \subseteq touched', unheard \subseteq unheard', banned' \ {p} = banned \ {p},
           p \in banned' \ unheard' => r # None /\ r.suspended
    PROVE  /\ row' \in [Principal -> Opt(AclRow)]
           /\ RowsStand'
           /\ \A u \in Task, q \in TaskRecord :
                 q = Witness(u, p, r, banned') =>
                    (u \in GuardReq => GuardInOrder(q)') /\ (u \in Session => LoginInOrder(q)')
<1>1. /\ row' \in [Principal -> Opt(AclRow)] /\ row'[p] = r
      /\ \A x \in Principal : x # p => row'[x] = row[x]
  BY DEF GuardInv, TypeOK
<1>2. RowsStand'
  <2>1. ASSUME NEW s \in Session, sess'[s].owner # None
        PROVE  row'[sess'[s].owner] # None
    <3>1. sess[s].owner \in Principal
      BY <2>1 DEF GuardInv, TypeOK, SessionRecord, Opt
    <3> QED
      BY <1>1, <2>1, <3>1 DEF GuardInv, RowsStand
  <2>2. \A x \in Principal : row'[x] # None /\ row'[x].suspended => x \in touched'
    BY <1>1 DEF GuardInv, RowsStand
  <2>3. ASSUME NEW x \in banned' \ unheard'
        PROVE  row'[x] # None /\ row'[x].suspended
    <3>1. CASE x = p
      BY <1>1, <2>3, <3>1
    <3>2. CASE x # p
      <4>1. x \in banned \ unheard /\ x \in Principal
        BY <2>3, <3>2 DEF GuardInv, TypeOK
      <4> QED
        BY <1>1, <3>2, <4>1 DEF GuardInv, RowsStand
    <3> QED
      BY <3>1, <3>2
  <2> QED
    BY <2>1, <2>2, <2>3 DEF RowsStand
<1>3. ASSUME NEW u \in Task, NEW q \in TaskRecord, q = Witness(u, p, r, banned')
      PROVE  (u \in GuardReq => GuardInOrder(q)') /\ (u \in Session => LoginInOrder(q)')
  <2>1. /\ q.pc = task[u].pc /\ q.p = task[u].p /\ q.shape = task[u].shape /\ q.dec = task[u].dec
        /\ q.barred => task[u].barred
        /\ task[u].granted => q.granted
        /\ u \in GuardReq /\ q.p = p /\ q.pc \notin {"idle", "done"} =>
              (q.barred => p \in banned') /\ (Grants(r, q.shape) => q.granted)
    <3> PICK b : b = banned'
      OBVIOUS
    <3>1. q = Witness(u, p, r, b)
      BY <1>3
    <3> QED
      BY <3>1, WitnessEffect DEF GuardInv
  <2>2. ASSUME u \in GuardReq, q.pc \notin {"idle", "done"}
        PROVE  GuardInOrder(q)'
    <3>1. GuardInOrder(task[u])
      BY <2>2 DEF GuardInv, TasksInOrder
    <3>2. /\ q.pc # "insert" /\ q.p \in Principal /\ q.shape \in Shape
          /\ q.pc # "check" => q.shape.kind # "stepUp" /\ q.shape.resolver
          /\ task[u].barred => q.p \in banned
          /\ Grants(row[q.p], q.shape) => task[u].granted
          /\ q.pc = "decide" =>
                /\ Satisfies(q.dec, q.shape) => task[u].granted
                /\ task[u].barred /\ q.dec.allowed => q.p \in unheard
                /\ q.dec.revoke => q.p \in touched
          /\ q.pc = "revoke" => q.p \in touched
      BY <2>1, <2>2, <3>1 DEF GuardInOrder
    <3>3. q.barred => q.p \in banned'
      BY <2>1, <2>2, <3>2
    <3>4. Grants(row'[q.p], q.shape) => q.granted
      BY <1>1, <2>1, <2>2, <3>2
    <3>5. Grants(row[q.p], q.shape)' => q.granted
      BY <3>4 DEF Grants
    <3> QED
      BY <2>1, <3>2, <3>3, <3>5 DEF GuardInOrder, Satisfies
  <2>3. ASSUME u \in Session, q.pc \notin {"idle", "done"}
        PROVE  LoginInOrder(q)'
    <3>1. LoginInOrder(task[u])
      BY <2>3 DEF GuardInv, TasksInOrder
    <3> QED
      BY <1>1, <2>1, <2>3, <3>1 DEF LoginInOrder
  <2> QED
    BY <2>2, <2>3 DEF GuardInOrder, LoginInOrder
<1> QED
  BY <1>1, <1>2, <1>3

\* Ending the sessions of a principal
LEMMA RevokeEffect ==
    ASSUME TypeOK, NEW p, RevokeSessionsOf(p)
    PROVE  /\ sess' \in [Session -> SessionRecord]
           /\ \A s \in Session : /\ sess'[s].owner = sess[s].owner /\ sess'[s].role = sess[s].role
                                 /\ sess'[s].stale = sess[s].stale
                                 /\ sess'[s].revoked <=> sess[s].revoked \/ sess[s].owner = p
<1>1. \A s \in Session : /\ sess[s] \in SessionRecord
                         /\ [sess[s] EXCEPT !.revoked = TRUE] \in SessionRecord
  BY DEF TypeOK, SessionRecord
<1> QED
  BY <1>1 DEF RevokeSessionsOf, SessionRecord

-----------------------------------------------------------------------------
(* The steps of the resolver. *)

\* The first read
LEMMA AclGetStep ==
    ASSUME GuardInv, NEW t \in Task, AclGet(t)
    PROVE  GuardInv'
<1> USE DEF AclGet
<1>1. CASE Become(t, Resolved(t, row[task[t].p]))
  <2> PICK q : q = Resolved(t, row[task[t].p])
    OBVIOUS
  <2>1. /\ q \in TaskRecord
        /\ t \in GuardReq => GuardInOrder(q)
        /\ t \in Session => LoginInOrder(q)
    BY ResolvedInOrder
  <2> QED
    BY <1>1, <2>1, TaskStep
<1>2. CASE Become(t, [task[t] EXCEPT !.pc = "provision"])
  <2> PICK q : q = [task[t] EXCEPT !.pc = "provision"]
    OBVIOUS
  <2>1. /\ q \in TaskRecord /\ q.pc = "provision" /\ q.p = task[t].p /\ q.shape = task[t].shape
        /\ q.barred = task[t].barred /\ q.granted = task[t].granted
    <3>1. task[t] \in TaskRecord
      BY DEF GuardInv, TypeOK, Task
    <3> QED
      BY <3>1 DEF TaskRecord
  <2>2. t \in GuardReq => GuardInOrder(q)
    BY <2>1 DEF GuardInv, TasksInOrder, GuardInOrder
  <2>3. t \in Session => LoginInOrder(q)
    BY <2>1 DEF GuardInv, TasksInOrder, LoginInOrder
  <2> QED
    BY <1>2, <2>1, <2>2, <2>3, TaskStep
<1> QED
  BY <1>1, <1>2

\* The read after a record was provisioned
LEMMA AclRegetStep ==
    ASSUME GuardInv, NEW t \in Task, AclReget(t)
    PROVE  GuardInv'
<1> USE DEF AclReget
<1> PICK q : q = Resolved(t, row[task[t].p])
  OBVIOUS
<1>1. /\ q \in TaskRecord
      /\ t \in GuardReq => GuardInOrder(q)
      /\ t \in Session => LoginInOrder(q)
  BY ResolvedInOrder
<1> QED
  BY <1>1, TaskStep

\* What auto-provisioning writes is a row.
LEMMA FreshRowType ==
    FreshRow \in AclRow /\ FreshRow # None /\ ~FreshRow.suspended /\ FreshRow.role = DefaultRole
<1>1. DefaultRole \in STRING
  BY RegistryAssumption
<1>2. FreshRow \in AclRow
  BY <1>1 DEF FreshRow, AclRow
<1> QED
  BY <1>2, NoneAssumption DEF FreshRow

\* The record is provisioned, over whatever has become of the row.
LEMMA AclProvisionStep ==
    ASSUME GuardInv, NEW t \in Task, AclProvision(t)
    PROVE  GuardInv'
<1> PICK p : p = task[t].p
  OBVIOUS
<1>1. /\ task[t].pc = "provision"
      /\ row' = [row EXCEPT ![p] = FreshRow]
      /\ task' = [u \in DOMAIN task |->
                     IF u = t THEN [Witness(u, p, FreshRow, banned) EXCEPT !.pc = "reget"]
                     ELSE Witness(u, p, FreshRow, banned)]
      /\ unheard' = IF p \in banned THEN unheard \cup {p} ELSE unheard
      /\ touched' = IF row[p] # None /\ row[p].role # DefaultRole THEN touched \cup {p} ELSE touched
      /\ mingled' = IF row[p] # None \/ \E o \in Op : op[o].p = p /\ op[o].pc = "write"
                    THEN mingled \cup {p} ELSE mingled
      /\ UNCHANGED <<clock, backend, declared, sess, op, banned>>
  BY DEF AclProvision, config
<1>2. p \in Principal /\ DOMAIN task = Task
  BY <1>1 DEF GuardInv, TypeOK, Task, TasksInOrder, GuardInOrder, LoginInOrder
<1>3. /\ unheard \subseteq unheard' /\ touched \subseteq touched' /\ mingled \subseteq mingled'
      /\ unheard' \subseteq Principal /\ touched' \subseteq Principal /\ mingled' \subseteq Principal
      /\ p \notin banned' \ unheard'
  BY <1>1, <1>2 DEF GuardInv, TypeOK
<1>4. FreshRow \in Opt(AclRow) /\ FreshRow # None /\ ~FreshRow.suspended /\ FreshRow.role = DefaultRole
  BY FreshRowType DEF Opt
<1>5. /\ row' \in [Principal -> Opt(AclRow)]
      /\ RowsStand'
      /\ \A u \in Task, q \in TaskRecord :
            q = Witness(u, p, FreshRow, banned') =>
               (u \in GuardReq => GuardInOrder(q)') /\ (u \in Session => LoginInOrder(q)')
  <2>1. banned' \ {p} = banned \ {p}
    BY <1>1
  <2> QED
    BY <1>1, <1>2, <1>3, <1>4, <2>1, RowWritten
<1>6. ASSUME NEW u \in Task
      PROVE  /\ task'[u] \in TaskRecord
             /\ u \in GuardReq => GuardInOrder(task[u])'
             /\ u \in Session => LoginInOrder(task[u])'
  <2> PICK q : q = Witness(u, p, FreshRow, banned)
    OBVIOUS
  <2>1. q \in TaskRecord /\ q.pc = task[u].pc
    BY WitnessEffect DEF GuardInv
  <2>2. (u \in GuardReq => GuardInOrder(q)') /\ (u \in Session => LoginInOrder(q)')
    BY <1>1, <1>5, <2>1
  <2>3. CASE u # t
    <3>1. task'[u] = q
      BY <1>1, <1>2, <2>3
    <3> QED
      BY <2>1, <2>2, <3>1 DEF GuardInOrder, LoginInOrder
  <2>4. CASE u = t
    <3> PICK x : x = task'[u]
      OBVIOUS
    <3>1. x = [q EXCEPT !.pc = "reget"]
      BY <1>1, <1>2, <2>4
    <3>2. /\ x \in TaskRecord /\ x.pc = "reget" /\ x.p = q.p /\ x.shape = q.shape
          /\ x.barred = q.barred /\ x.granted = q.granted
      BY <2>1, <3>1 DEF TaskRecord
    <3>3. q.pc = "provision"
      BY <1>1, <2>1, <2>4
    <3>4. (u \in GuardReq => GuardInOrder(x)') /\ (u \in Session => LoginInOrder(x)')
      BY <2>2, <3>2, <3>3 DEF GuardInOrder, LoginInOrder
    <3> QED
      BY <3>2, <3>4 DEF GuardInOrder, LoginInOrder
  <2> QED
    BY <2>3, <2>4
<1>7. TypeOK'
  <2>1. task' \in [Session \cup GuardReq -> TaskRecord]
    BY <1>1, <1>2, <1>6 DEF Task
  <2> QED
    BY <1>1, <1>3, <1>5, <2>1 DEF GuardInv, TypeOK
<1>8. TasksInOrder'
  BY <1>6 DEF TasksInOrder, Task
<1>9. row'[p] = FreshRow /\ \A x \in Principal : x # p => row'[x] = row[x]
  BY <1>1, <1>2 DEF GuardInv, TypeOK
<1>10. OpsInOrder'
  <2>1. \A o \in Op : op[o].pc = "revoke" => op[o].p \in touched'
    BY <1>3 DEF GuardInv, OpsInOrder
  <2>2. ASSUME NEW o \in Op, op[o].pc = "write"
        PROVE  /\ op[o].p \in Principal /\ op[o].new \in AclRecord
               /\ op[o].prev # None =>
                     op[o].p \in touched' \/ (row'[op[o].p] # None /\ row'[op[o].p].role = op[o].prev)
               /\ op[o].p \notin mingled' =>
                     op[o].prev = IF row'[op[o].p] = None THEN None ELSE row'[op[o].p].role
    <3>1. /\ op[o].p \in Principal /\ op[o].new \in AclRecord
          /\ op[o].prev # None =>
                op[o].p \in touched \/ (row[op[o].p] # None /\ row[op[o].p].role = op[o].prev)
          /\ op[o].p \notin mingled =>
                op[o].prev = IF row[op[o].p] = None THEN None ELSE row[op[o].p].role
      BY <2>2 DEF GuardInv, OpsInOrder
    <3>2. CASE op[o].p = p
      BY <1>1, <1>3, <1>4, <1>9, <2>2, <3>1, <3>2
    <3>3. CASE op[o].p # p
      BY <1>1, <1>3, <1>9, <3>1, <3>3
    <3> QED
      BY <3>2, <3>3
  <2>3. \A o, x \in Op : /\ o # x /\ op[o].p = op[x].p
                         /\ op[o].pc \in {"write", "revoke"} /\ op[x].pc \in {"write", "revoke"}
                         => op[o].p \in mingled'
    BY <1>3 DEF GuardInv, OpsInOrder
  <2> QED
    BY <1>1, <2>1, <2>2, <2>3 DEF OpsInOrder
<1>11. RoleKept'
  <2> SUFFICES ASSUME NEW s \in Session, sess[s].owner # None, ~sess[s].revoked, ~sess[s].stale,
                      sess[s].owner \notin mingled'
               PROVE  \/ ~row'[sess[s].owner].suspended /\ row'[sess[s].owner].role = sess[s].role
                      \/ \E o \in Op : op[o].p = sess[s].owner /\ op[o].pc = "revoke"
    BY <1>1 DEF RoleKept
  <2>1. sess[s].owner \in Principal /\ row[sess[s].owner] # None
    BY DEF GuardInv, TypeOK, SessionRecord, Opt, RowsStand
  <2>2. sess[s].owner # p
    BY <1>1, <2>1
  <2> QED
    BY <1>3, <1>9, <2>1, <2>2 DEF GuardInv, RoleKept
<1>12. NoPunishmentWithoutCause'
  BY <1>1, <1>3 DEF GuardInv, NoPunishmentWithoutCause
<1> QED
  BY <1>5, <1>7, <1>8, <1>10, <1>11, <1>12 DEF GuardInv

-----------------------------------------------------------------------------
(* The steps of a login. *)

\* A login begins.
LEMMA LoginStartStep ==
    ASSUME GuardInv, NEW s \in Session, LoginStart(s)
    PROVE  GuardInv'
<1> USE DEF LoginStart
<1>1. PICK p \in Principal, su \in BOOLEAN :
         Become(s, [NoTask EXCEPT !.pc = "get", !.p = p, !.stepUp = su])
  OBVIOUS
<1> PICK q : q = [NoTask EXCEPT !.pc = "get", !.p = p, !.stepUp = su]
  OBVIOUS
<1>2. q \in TaskRecord /\ q.pc = "get" /\ q.p = p
  BY DEF NoTask, TaskRecord, Opt, Decision, NoDecision, Code
<1>3. LoginInOrder(q) /\ s \notin GuardReq /\ s \in Task
  BY <1>2, GuardAssumption DEF LoginInOrder, Task
<1> QED
  BY <1>1, <1>2, <1>3, TaskStep

\* A login stores its session, with the role and the permissions it was told.
LEMMA LoginInsertStep ==
    ASSUME GuardInv, NEW s \in Session, LoginInsert(s)
    PROVE  GuardInv'
<1> PICK d, r, p : d = task[s].dec /\ p = task[s].p /\ r = row[p]
  OBVIOUS
<1> PICK stale \in BOOLEAN : stale <=> r.suspended \/ r.role # d.role
  OBVIOUS
<1> PICK e : e = IF task[s].stepUp THEN clock + StepUpTtl ELSE None
  OBVIOUS
<1> PICK n : n = [owner |-> p, role |-> d.role, perms |-> d.perms, exp |-> clock + SessionTtl,
                  stepExp |-> e, revoked |-> FALSE, stale |-> stale]
  OBVIOUS
<1>1. task[s].pc = "insert" /\ UNCHANGED <<clock, backend, declared, row, op, banned, unheard, touched, mingled>>
  BY DEF LoginInsert, config, ghosts
<1>2. sess' = [sess EXCEPT ![s] = n]
  <2>1. (r.suspended \/ r.role # d.role) = stale
    OBVIOUS
  <2>2. sess' = [sess EXCEPT ![s] =
                   [owner |-> p, role |-> d.role, perms |-> d.perms, exp |-> clock + SessionTtl,
                    stepExp |-> e, revoked |-> FALSE, stale |-> r.suspended \/ r.role # d.role]]
    BY DEF LoginInsert
  <2> QED
    BY <2>1, <2>2, Zenon
<1>3. LoginInOrder(task[s]) /\ task[s] \in TaskRecord /\ s \in Task
  BY DEF GuardInv, TasksInOrder, TypeOK, Task
<1>4. p \in Principal /\ r # None /\ r \in AclRow /\ p # None
  BY <1>1, <1>3, NoneAssumption DEF LoginInOrder, GuardInv, TypeOK, Opt
<1>5. n \in SessionRecord
  <2>1. d \in Decision
    BY <1>3 DEF TaskRecord
  <2>2. clock + SessionTtl \in Int /\ e \in Opt(Int)
    BY GuardAssumption DEF GuardInv, TypeOK, Opt
  <2>3. d.role \in Opt(STRING) /\ d.perms \in SUBSET STRING /\ p \in Opt(Principal)
    BY <1>4, <2>1 DEF Decision, Opt
  <2> QED
    BY <2>2, <2>3 DEF SessionRecord
<1>6. /\ sess' \in [Session -> SessionRecord] /\ sess'[s] = n
      /\ \A x \in Session : x # s => sess'[x] = sess[x]
  BY <1>2, <1>5 DEF GuardInv, TypeOK
<1> PICK q : q = [NoTask EXCEPT !.pc = "done", !.code = "NAP_COMPLETE_SUCCESS"]
  OBVIOUS
<1>7. q \in TaskRecord /\ q.pc = "done"
  BY AnswerType DEF Code
<1>8. /\ task' \in [Task -> TaskRecord] /\ task'[s] = q
      /\ \A u \in Task : u # s => task'[u] = task[u]
  <2>1. Become(s, q)
    BY DEF LoginInsert
  <2> QED
    BY <1>3, <1>7, <2>1, BecomeEffect DEF GuardInv
<1>9. TypeOK'
  BY <1>1, <1>6, <1>8 DEF GuardInv, TypeOK, Task
<1>10. TasksInOrder'
  <2>1. ASSUME NEW g \in GuardReq
        PROVE  GuardInOrder(task[g])'
    <3> PICK x : x = task'[g]
      OBVIOUS
    <3>1. x = task[g]
      BY <1>8, GuardAssumption DEF Task
    <3>2. GuardInOrder(x)
      BY <3>1 DEF GuardInv, TasksInOrder
    <3>3. GuardInOrder(x)'
      BY <1>1, <3>2 DEF GuardInOrder, Grants
    <3> QED
      BY <3>3 DEF GuardInOrder, Grants
  <2>2. ASSUME NEW x \in Session
        PROVE  LoginInOrder(task[x])'
    BY <1>1, <1>7, <1>8 DEF GuardInv, TasksInOrder, LoginInOrder, Task
  <2> QED
    BY <2>1, <2>2 DEF TasksInOrder
<1>11. RowsStand'
  BY <1>1, <1>4, <1>6 DEF GuardInv, RowsStand
<1>12. OpsInOrder'
  BY <1>1 DEF GuardInv, OpsInOrder
<1>13. RoleKept'
  <2> SUFFICES ASSUME NEW x \in Session, sess'[x].owner # None, ~sess'[x].revoked, ~sess'[x].stale,
                      sess'[x].owner \notin mingled
               PROVE  \/ ~row[sess'[x].owner].suspended /\ row[sess'[x].owner].role = sess'[x].role
                      \/ \E o \in Op : op[o].p = sess'[x].owner /\ op[o].pc = "revoke"
    BY <1>1 DEF RoleKept
  <2>1. CASE x = s
    BY <1>6, <2>1
  <2>2. CASE x # s
    BY <1>6, <2>2 DEF GuardInv, RoleKept
  <2> QED
    BY <2>1, <2>2
<1>14. NoPunishmentWithoutCause'
  BY <1>1, <1>6 DEF GuardInv, NoPunishmentWithoutCause
<1> QED
  BY <1>9, <1>10, <1>11, <1>12, <1>13, <1>14 DEF GuardInv

-----------------------------------------------------------------------------
(* The steps of a guard. *)

\* A guard is in order in the task it is.
LEMMA InOrder ==
    ASSUME GuardInv, NEW g \in GuardReq
    PROVE  g \in Task /\ g \notin Session /\ task[g] \in TaskRecord /\ GuardInOrder(task[g])
  BY GuardAssumption DEF GuardInv, TypeOK, TasksInOrder, Task

\* A guard judges with a code of the adapters'.
LEMMA VerdictType ==
    ASSUME NEW q, NEW allowed, NEW role, NEW perms, q.shape \in Shape, q.shape.kind # "stepUp"
    PROVE  Verdict(q, allowed, role, perms) \in Code
  BY RegistryAssumption DEF Verdict, Code

\* The session is looked up.
LEMMA GuardLookupStep ==
    ASSUME GuardInv, NEW g \in GuardReq, GuardLookup(g)
    PROVE  GuardInv'
<1>1. PICK x \in Shape, s \in Session, su \in Opt(Session) :
         /\ sess[s].owner # None
         /\ Become(g, [NoTask EXCEPT !.pc = "check", !.shape = x, !.sid = s, !.token = su,
                                     !.p = sess[s].owner,
                                     !.barred = sess[s].owner \in banned,
                                     !.granted = Grants(row[sess[s].owner], x)])
  BY DEF GuardLookup
<1> PICK p : p = sess[s].owner
  OBVIOUS
<1> PICK a \in BOOLEAN : a <=> p \in banned
  OBVIOUS
<1> PICK b \in BOOLEAN : b <=> Grants(row[p], x)
  OBVIOUS
<1> PICK q : q = [NoTask EXCEPT !.pc = "check", !.shape = x, !.sid = s, !.token = su, !.p = p,
                                !.barred = a, !.granted = b]
  OBVIOUS
<1>2. p \in Principal
  BY <1>1 DEF GuardInv, TypeOK, SessionRecord, Opt
<1>3. q \in TaskRecord /\ q.pc = "check" /\ q.p = p /\ q.shape = x /\ q.barred = a /\ q.granted = b
  BY <1>2 DEF NoTask, TaskRecord, Opt, Decision, NoDecision, Code
<1>4. Become(g, q)
  <2>1. (p \in banned) = a /\ Grants(row[p], x) = b
    BY DEF Grants
  <2>2. Become(g, [NoTask EXCEPT !.pc = "check", !.shape = x, !.sid = s, !.token = su, !.p = p,
                                 !.barred = p \in banned, !.granted = Grants(row[p], x)])
    BY <1>1
  <2> QED
    BY <2>1, <2>2, Zenon
<1>5. GuardInOrder(q)
  BY <1>2, <1>3 DEF GuardInOrder
<1> QED
  BY <1>3, <1>4, <1>5, InOrder, TaskStep DEF GuardLookup

\* The session is checked.
LEMMA GuardCheckStep ==
    ASSUME GuardInv, NEW g \in GuardReq, GuardCheck(g)
    PROVE  GuardInv'
<1> PICK q : q = task[g]
  OBVIOUS
<1>1. /\ q.pc = "check" /\ q \in TaskRecord /\ GuardInOrder(q) /\ q.shape \in Shape
      /\ g \in Task /\ g \notin Session
      /\ UNCHANGED <<clock, config, row, sess, op, ghosts>>
  BY InOrder DEF GuardCheck, GuardInOrder
<1>2. ASSUME NEW code \in Code, Answer(g, code)
      PROVE  GuardInv'
  BY <1>1, <1>2, AnswerStep
<1>3. CASE Answer(g, "NAP_GUARD_NO_SESSION")
  BY <1>2, <1>3 DEF Code
<1>4. CASE Answer(g, IF HasValidStepUpToken(q) THEN "admitted" ELSE "NAP_GUARD_STEP_UP_REQUIRED")
  <2>1. (IF HasValidStepUpToken(q) THEN "admitted" ELSE "NAP_GUARD_STEP_UP_REQUIRED") \in Code
    BY DEF Code
  <2> QED
    BY <1>2, <1>4, <2>1
<1>5. CASE /\ q.shape.kind # "stepUp"
           /\ Answer(g, Verdict(q, TRUE, sess[q.sid].role, sess[q.sid].perms))
  <2>1. Verdict(q, TRUE, sess[q.sid].role, sess[q.sid].perms) \in Code
    BY <1>1, <1>5, VerdictType
  <2> QED
    BY <1>2, <1>5, <2>1
<1>6. CASE q.shape.kind # "stepUp" /\ q.shape.resolver /\ Become(g, [q EXCEPT !.pc = "get"])
  <2> PICK x : x = [q EXCEPT !.pc = "get"]
    OBVIOUS
  <2>1. /\ x \in TaskRecord /\ x.pc = "get" /\ x.p = q.p /\ x.shape = q.shape
        /\ x.barred = q.barred /\ x.granted = q.granted
    BY <1>1 DEF TaskRecord
  <2>2. GuardInOrder(x)
    BY <1>1, <1>6, <2>1 DEF GuardInOrder
  <2> QED
    BY <1>1, <1>6, <2>1, <2>2, TaskStep
<1> QED
  BY <1>3, <1>4, <1>5, <1>6 DEF GuardCheck

\* The guard acts on what the resolver decided.
LEMMA GuardDecideStep ==
    ASSUME GuardInv, NEW g \in GuardReq, GuardDecide(g)
    PROVE  GuardInv'
<1> PICK q : q = task[g]
  OBVIOUS
<1>1. /\ q.pc = "decide" /\ q \in TaskRecord /\ GuardInOrder(q)
      /\ g \in Task /\ g \notin Session
      /\ UNCHANGED <<clock, config, row, sess, op, ghosts>>
  BY InOrder DEF GuardDecide
<1>2. q.shape \in Shape /\ q.shape.kind # "stepUp" /\ q.shape.resolver
  BY <1>1 DEF GuardInOrder
<1>3. CASE Answer(g, Verdict(q, q.dec.allowed, q.dec.role, q.dec.perms))
  <2>1. Verdict(q, q.dec.allowed, q.dec.role, q.dec.perms) \in Code
    BY <1>2, VerdictType
  <2> QED
    BY <1>1, <1>3, <2>1, AnswerStep
<1>4. CASE q.dec.revoke /\ Become(g, [q EXCEPT !.pc = "revoke"])
  <2> PICK x : x = [q EXCEPT !.pc = "revoke"]
    OBVIOUS
  <2>1. /\ x \in TaskRecord /\ x.pc = "revoke" /\ x.p = q.p /\ x.shape = q.shape
        /\ x.barred = q.barred /\ x.granted = q.granted
    BY <1>1 DEF TaskRecord
  <2>2. GuardInOrder(x)
    BY <1>1, <1>4, <2>1 DEF GuardInOrder
  <2> QED
    BY <1>1, <1>4, <2>1, <2>2, TaskStep
<1> QED
  BY <1>3, <1>4 DEF GuardDecide

\* Ending the sessions of somebody who was touched leaves the other sessions as they were.
LEMMA Revoked ==
    ASSUME GuardInv, NEW p \in touched, RevokeSessionsOf(p),
           UNCHANGED <<row, banned, unheard, touched, mingled>>,
           \A o \in Op : op[o].pc = "revoke" /\ op[o].p # p => op'[o] = op[o]
    PROVE  sess' \in [Session -> SessionRecord] /\ RowsStand' /\ RoleKept' /\ NoPunishmentWithoutCause'
<1>1. /\ sess' \in [Session -> SessionRecord]
      /\ \A s \in Session : /\ sess'[s].owner = sess[s].owner /\ sess'[s].role = sess[s].role
                            /\ sess'[s].stale = sess[s].stale
                            /\ sess'[s].revoked <=> sess[s].revoked \/ sess[s].owner = p
  BY RevokeEffect DEF GuardInv
<1>2. RowsStand'
  BY <1>1 DEF GuardInv, RowsStand
<1>3. RoleKept'
  <2> SUFFICES ASSUME NEW s \in Session, sess'[s].owner # None, ~sess'[s].revoked, ~sess'[s].stale,
                      sess'[s].owner \notin mingled
               PROVE  \/ ~row[sess'[s].owner].suspended /\ row[sess'[s].owner].role = sess'[s].role
                      \/ \E o \in Op : op'[o].p = sess'[s].owner /\ op'[o].pc = "revoke"
    BY DEF RoleKept
  <2>1. sess[s].owner # p /\ ~sess[s].revoked /\ ~sess[s].stale
    BY <1>1
  <2>2. \/ ~row[sess[s].owner].suspended /\ row[sess[s].owner].role = sess[s].role
        \/ \E o \in Op : op[o].p = sess[s].owner /\ op[o].pc = "revoke"
    BY <1>1, <2>1 DEF GuardInv, RoleKept
  <2> QED
    BY <1>1, <2>1, <2>2
<1>4. NoPunishmentWithoutCause'
  BY <1>1 DEF GuardInv, NoPunishmentWithoutCause
<1> QED
  BY <1>1, <1>2, <1>3, <1>4

\* A guard ends the sessions of a principal whose row it read suspended.
LEMMA GuardRevokeStep ==
    ASSUME GuardInv, NEW g \in GuardReq, GuardRevoke(g)
    PROVE  GuardInv'
<1> PICK p : p = task[g].p
  OBVIOUS
<1> PICK q : q = [NoTask EXCEPT !.pc = "done", !.code = "NAP_GUARD_ACL_DENIED"]
  OBVIOUS
<1>1. /\ task[g].pc = "revoke" /\ RevokeSessionsOf(p) /\ Become(g, q)
      /\ UNCHANGED <<clock, backend, declared, row, op, banned, unheard, touched, mingled>>
  BY DEF GuardRevoke, Answer, config, ghosts
<1>2. g \in Task /\ p \in touched
  BY <1>1, InOrder DEF GuardInOrder
<1>3. q \in TaskRecord /\ q.pc = "done"
  BY AnswerType DEF Code
<1>4. /\ task' \in [Task -> TaskRecord] /\ task'[g] = q
      /\ \A u \in Task : u # g => task'[u] = task[u]
  BY <1>1, <1>2, <1>3, BecomeEffect DEF GuardInv
<1>5. sess' \in [Session -> SessionRecord] /\ RowsStand' /\ RoleKept' /\ NoPunishmentWithoutCause'
  BY <1>1, <1>2, Revoked
<1>6. TypeOK'
  BY <1>1, <1>4, <1>5 DEF GuardInv, TypeOK, Task
<1>7. TasksInOrder'
  <2>1. ASSUME NEW x \in GuardReq
        PROVE  GuardInOrder(task[x])'
    <3> PICK y : y = task'[x]
      OBVIOUS
    <3>1. GuardInOrder(y)
      BY <1>3, <1>4 DEF GuardInv, TasksInOrder, GuardInOrder, Task
    <3>2. GuardInOrder(y)'
      BY <1>1, <3>1 DEF GuardInOrder, Grants
    <3> QED
      BY <3>2 DEF GuardInOrder, Grants
  <2>2. ASSUME NEW s \in Session
        PROVE  LoginInOrder(task[s])'
    BY <1>1, <1>3, <1>4 DEF GuardInv, TasksInOrder, LoginInOrder, Task
  <2> QED
    BY <2>1, <2>2 DEF TasksInOrder
<1>8. OpsInOrder'
  BY <1>1 DEF GuardInv, OpsInOrder
<1> QED
  BY <1>5, <1>6, <1>7, <1>8 DEF GuardInv

-----------------------------------------------------------------------------
(* The steps of the operator. *)

\* What an operator's write of p's row does, before the call itself moves on
LEMMA WriteEffect ==
    ASSUME GuardInv, NEW p \in Principal, NEW r \in Opt(AclRow), NEW bans \in BOOLEAN,
           Write(p, r, bans), UNCHANGED <<clock, backend, declared, sess>>,
           r = None => row[p] = None,
           r # None => (r.suspended <=> bans)
    PROVE  /\ row' \in [Principal -> Opt(AclRow)] /\ row'[p] = r
           /\ \A x \in Principal : x # p => row'[x] = row[x]
           /\ task' \in [Task -> TaskRecord] /\ TasksInOrder' /\ RowsStand'
           /\ banned' \subseteq Principal /\ unheard' \subseteq Principal /\ touched' \subseteq Principal
           /\ touched \subseteq touched' /\ (bans => p \in touched')
           /\ r # None /\ row[p] # None /\ r.role # row[p].role => p \in touched'
<1>1. /\ row' = [row EXCEPT ![p] = r]
      /\ banned' = IF bans THEN banned \cup {p} ELSE banned \ {p}
      /\ unheard' = IF bans /\ r = None THEN unheard \cup {p} ELSE unheard
      /\ touched' = IF bans \/ (r # None /\ row[p] # None /\ r.role # row[p].role)
                    THEN touched \cup {p} ELSE touched
      /\ task' = [t \in DOMAIN task |-> Witness(t, p, r, banned')]
  BY DEF Write
<1>2. /\ banned' \subseteq Principal /\ unheard' \subseteq Principal /\ touched' \subseteq Principal
      /\ touched \subseteq touched' /\ unheard \subseteq unheard'
      /\ bans => p \in touched'
      /\ r # None /\ row[p] # None /\ r.role # row[p].role => p \in touched'
      /\ banned' \ {p} = banned \ {p}
      /\ p \in banned' \ unheard' => r # None /\ bans
  BY <1>1 DEF GuardInv, TypeOK
<1>3. /\ row'[p] = r /\ \A x \in Principal : x # p => row'[x] = row[x]
      /\ DOMAIN task = Task
  BY <1>1 DEF GuardInv, TypeOK, Task
<1>4. /\ row' \in [Principal -> Opt(AclRow)]
      /\ RowsStand'
      /\ \A u \in Task, q \in TaskRecord :
            q = Witness(u, p, r, banned') =>
               (u \in GuardReq => GuardInOrder(q)') /\ (u \in Session => LoginInOrder(q)')
  BY <1>1, <1>2, RowWritten
<1>5. ASSUME NEW u \in Task
      PROVE  /\ task'[u] \in TaskRecord
             /\ u \in GuardReq => GuardInOrder(task[u])'
             /\ u \in Session => LoginInOrder(task[u])'
  <2> PICK b : b = banned'
    OBVIOUS
  <2> PICK q : q = Witness(u, p, r, b)
    OBVIOUS
  <2>1. q \in TaskRecord /\ task'[u] = q
    BY <1>1, <1>3, WitnessEffect DEF GuardInv
  <2>2. (u \in GuardReq => GuardInOrder(q)') /\ (u \in Session => LoginInOrder(q)')
    BY <1>4, <2>1
  <2> QED
    BY <2>1, <2>2 DEF GuardInOrder, LoginInOrder
<1>6. task' \in [Task -> TaskRecord] /\ TasksInOrder'
  BY <1>1, <1>3, <1>5 DEF TasksInOrder, Task
<1> QED
  BY <1>2, <1>3, <1>4, <1>6

\* The stores' suspend and unsuspend mark a row that exists, and keep the rest of it.
LEMMA MarkedType ==
    ASSUME NEW r \in Opt(AclRow), NEW b \in BOOLEAN
    PROVE  /\ Marked(r, b) \in Opt(AclRow)
           /\ Marked(r, b) = None <=> r = None
           /\ r # None => Marked(r, b).role = r.role /\ (Marked(r, b).suspended <=> b)
<1>1. CASE r = None
  BY <1>1 DEF Marked, Opt
<1>2. CASE r # None
  <2>1. r \in AclRow /\ Marked(r, b) = [r EXCEPT !.suspended = b]
    BY <1>2 DEF Marked, Opt
  <2>2. Marked(r, b) \in AclRow /\ Marked(r, b).role = r.role /\ Marked(r, b).suspended = b
    BY <2>1 DEF AclRow
  <2> QED
    BY <1>2, <2>2, NoneAssumption DEF Opt
<1> QED
  BY <1>1, <1>2

\* The operator's own records
LEMMA OpTypes ==
    /\ \A p \in Principal : /\ [NoOp EXCEPT !.pc = "revoke", !.p = p] \in OpRecord
                            /\ [NoOp EXCEPT !.pc = "revoke", !.p = p].pc = "revoke"
                            /\ [NoOp EXCEPT !.pc = "revoke", !.p = p].p = p
    /\ [NoOp EXCEPT !.pc = "done"] \in OpRecord /\ [NoOp EXCEPT !.pc = "done"].pc = "done"
    /\ [NoOp EXCEPT !.pc = "done"].p = None
  BY DEF NoOp, OpRecord, Opt

\* A call that has written p's row, and is done or goes on to end p's sessions, leaves the
\* other calls as they were.
LEMMA OpsWritten ==
    ASSUME GuardInv, NEW o \in Op, NEW p \in Principal,
           \A x \in Principal : x # p => row'[x] = row[x],
           row[p] # None => p \in touched' \/ (row'[p] # None /\ row'[p].role = row[p].role),
           touched \subseteq touched', mingled \subseteq mingled',
           Overlapping(o, p) => p \in mingled',
           op'[o].pc = "done" \/ (op'[o].pc = "revoke" /\ op'[o].p = p /\ p \in touched'),
           \A x \in Op : x # o => op'[x] = op[x]
    PROVE  OpsInOrder'
<1>1. \A x \in Op : op'[x].pc = "revoke" => op'[x].p \in touched'
  BY DEF GuardInv, OpsInOrder
<1>2. ASSUME NEW x \in Op, op'[x].pc = "write"
      PROVE  /\ op'[x].p \in Principal /\ op'[x].new \in AclRecord
             /\ op'[x].prev # None =>
                   op'[x].p \in touched' \/ (row'[op'[x].p] # None /\ row'[op'[x].p].role = op'[x].prev)
             /\ op'[x].p \notin mingled' =>
                   op'[x].prev = IF row'[op'[x].p] = None THEN None ELSE row'[op'[x].p].role
  <2>1. x # o /\ op'[x] = op[x] /\ op[x].pc = "write"
    BY <1>2
  <2>2. /\ op[x].p \in Principal /\ op[x].new \in AclRecord
        /\ op[x].prev # None =>
              op[x].p \in touched \/ (row[op[x].p] # None /\ row[op[x].p].role = op[x].prev)
        /\ op[x].p \notin mingled =>
              op[x].prev = IF row[op[x].p] = None THEN None ELSE row[op[x].p].role
    BY <2>1 DEF GuardInv, OpsInOrder
  <2>3. CASE op[x].p = p
    <3>1. op[x].p \in mingled'
      BY <2>1, <2>3 DEF Overlapping
    <3>2. op[x].prev # None =>
             op[x].p \in touched' \/ (row'[op[x].p] # None /\ row'[op[x].p].role = op[x].prev)
      BY <2>1, <2>2, <2>3
    <3> QED
      BY <2>1, <2>2, <3>1, <3>2
  <2>4. CASE op[x].p # p
    BY <2>1, <2>2, <2>4
  <2> QED
    BY <2>3, <2>4
<1>3. ASSUME NEW y \in Op, NEW x \in Op, y # x, op'[y].p = op'[x].p,
             op'[y].pc \in {"write", "revoke"}, op'[x].pc \in {"write", "revoke"}
      PROVE  op'[y].p \in mingled'
  <2>1. CASE y = o
    BY <1>3, <2>1 DEF Overlapping
  <2>2. CASE x = o
    BY <1>3, <2>2 DEF Overlapping
  <2>3. CASE y # o /\ x # o
    BY <1>3, <2>3 DEF GuardInv, OpsInOrder
  <2> QED
    BY <2>1, <2>2, <2>3
<1> QED
  BY <1>1, <1>2, <1>3 DEF OpsInOrder

\* suspend() marks the row, whose sessions have then to be ended.
LEMMA OpSuspendStep ==
    ASSUME GuardInv, NEW o \in Op, OpSuspend(o)
    PROVE  GuardInv'
<1>1. PICK p \in Principal :
         /\ Write(p, Marked(row[p], TRUE), TRUE)
         /\ op' = [op EXCEPT ![o] = [NoOp EXCEPT !.pc = "revoke", !.p = p]]
         /\ Mingle(o, p)
  BY DEF OpSuspend
<1> PICK r : r = Marked(row[p], TRUE)
  OBVIOUS
<1> PICK n : n = [NoOp EXCEPT !.pc = "revoke", !.p = p]
  OBVIOUS
<1>2. op[o].pc = "idle" /\ UNCHANGED <<clock, backend, declared, sess>>
  BY DEF OpSuspend, config
<1>3. /\ r \in Opt(AclRow) /\ (r = None <=> row[p] = None) /\ row[p] \in Opt(AclRow)
      /\ r # None => r.role = row[p].role /\ r.suspended
  BY MarkedType DEF GuardInv, TypeOK
<1>4. /\ row' \in [Principal -> Opt(AclRow)] /\ row'[p] = r
      /\ \A x \in Principal : x # p => row'[x] = row[x]
      /\ task' \in [Task -> TaskRecord] /\ TasksInOrder' /\ RowsStand'
      /\ banned' \subseteq Principal /\ unheard' \subseteq Principal /\ touched' \subseteq Principal
      /\ touched \subseteq touched' /\ p \in touched'
  BY <1>1, <1>2, <1>3, WriteEffect
<1>5. /\ op' \in [Op -> OpRecord] /\ op'[o] = n /\ n.pc = "revoke" /\ n.p = p
      /\ \A x \in Op : x # o => op'[x] = op[x]
  BY <1>1, OpTypes DEF GuardInv, TypeOK
<1>6. /\ mingled \subseteq mingled' /\ mingled' \subseteq Principal
      /\ Overlapping(o, p) => p \in mingled'
  BY <1>1 DEF Mingle, GuardInv, TypeOK
<1>7. TypeOK'
  BY <1>2, <1>4, <1>5, <1>6 DEF GuardInv, TypeOK, Task
<1>8. OpsInOrder'
  <2>1. row[p] # None => p \in touched' \/ (row'[p] # None /\ row'[p].role = row[p].role)
    BY <1>4
  <2>2. op'[o].pc = "revoke" /\ op'[o].p = p /\ p \in touched'
    BY <1>4, <1>5
  <2>3. /\ \A x \in Principal : x # p => row'[x] = row[x]
        /\ \A x \in Op : x # o => op'[x] = op[x]
    BY <1>4, <1>5
  <2>4. touched \subseteq touched' /\ mingled \subseteq mingled' /\ (Overlapping(o, p) => p \in mingled')
    BY <1>4, <1>6
  <2> QED
    BY <2>1, <2>2, <2>3, <2>4, OpsWritten
<1>9. RoleKept'
  <2> SUFFICES ASSUME NEW s \in Session, sess[s].owner # None, ~sess[s].revoked, ~sess[s].stale,
                      sess[s].owner \notin mingled'
               PROVE  \/ ~row'[sess[s].owner].suspended /\ row'[sess[s].owner].role = sess[s].role
                      \/ \E x \in Op : op'[x].p = sess[s].owner /\ op'[x].pc = "revoke"
    BY <1>2 DEF RoleKept
  <2>1. sess[s].owner \in Principal
    BY DEF GuardInv, TypeOK, SessionRecord, Opt
  <2>2. CASE sess[s].owner = p
    BY <1>5, <2>2
  <2>3. CASE sess[s].owner # p
    BY <1>2, <1>4, <1>5, <1>6, <2>1, <2>3 DEF GuardInv, RoleKept
  <2> QED
    BY <2>2, <2>3
<1>10. NoPunishmentWithoutCause'
  BY <1>2, <1>4 DEF GuardInv, NoPunishmentWithoutCause
<1> QED
  BY <1>4, <1>7, <1>8, <1>9, <1>10 DEF GuardInv

\* unsuspend() clears the mark, and that is all.
LEMMA OpUnsuspendStep ==
    ASSUME GuardInv, NEW o \in Op, OpUnsuspend(o)
    PROVE  GuardInv'
<1>1. PICK p \in Principal : Write(p, Marked(row[p], FALSE), FALSE) /\ Mingle(o, p)
  BY DEF OpUnsuspend
<1> PICK r : r = Marked(row[p], FALSE)
  OBVIOUS
<1> PICK n : n = [NoOp EXCEPT !.pc = "done"]
  OBVIOUS
<1>2. op[o].pc = "idle" /\ op' = [op EXCEPT ![o] = n] /\ UNCHANGED <<clock, backend, declared, sess>>
  BY DEF OpUnsuspend, config
<1>3. /\ r \in Opt(AclRow) /\ (r = None <=> row[p] = None) /\ row[p] \in Opt(AclRow)
      /\ r # None => r.role = row[p].role /\ ~r.suspended
  BY MarkedType DEF GuardInv, TypeOK
<1>4. /\ row' \in [Principal -> Opt(AclRow)] /\ row'[p] = r
      /\ \A x \in Principal : x # p => row'[x] = row[x]
      /\ task' \in [Task -> TaskRecord] /\ TasksInOrder' /\ RowsStand'
      /\ banned' \subseteq Principal /\ unheard' \subseteq Principal /\ touched' \subseteq Principal
      /\ touched \subseteq touched'
  BY <1>1, <1>2, <1>3, WriteEffect
<1>5. /\ op' \in [Op -> OpRecord] /\ op'[o] = n /\ n.pc = "done"
      /\ \A x \in Op : x # o => op'[x] = op[x]
  BY <1>2, OpTypes DEF GuardInv, TypeOK
<1>6. /\ mingled \subseteq mingled' /\ mingled' \subseteq Principal
      /\ Overlapping(o, p) => p \in mingled'
  BY <1>1 DEF Mingle, GuardInv, TypeOK
<1>7. TypeOK'
  BY <1>2, <1>4, <1>5, <1>6 DEF GuardInv, TypeOK, Task
<1>8. OpsInOrder'
  BY <1>3, <1>4, <1>5, <1>6, OpsWritten
<1>9. RoleKept'
  <2> SUFFICES ASSUME NEW s \in Session, sess[s].owner # None, ~sess[s].revoked, ~sess[s].stale,
                      sess[s].owner \notin mingled'
               PROVE  \/ ~row'[sess[s].owner].suspended /\ row'[sess[s].owner].role = sess[s].role
                      \/ \E x \in Op : op'[x].p = sess[s].owner /\ op'[x].pc = "revoke"
    BY <1>2 DEF RoleKept
  <2>1. sess[s].owner \in Principal /\ row[sess[s].owner] # None
    BY DEF GuardInv, TypeOK, SessionRecord, Opt, RowsStand
  <2>2. \/ ~row[sess[s].owner].suspended /\ row[sess[s].owner].role = sess[s].role
        \/ \E x \in Op : op[x].p = sess[s].owner /\ op[x].pc = "revoke"
    BY <1>6 DEF GuardInv, RoleKept
  <2>3. CASE \E x \in Op : op[x].p = sess[s].owner /\ op[x].pc = "revoke"
    BY <1>2, <1>5, <2>3
  <2>4. CASE ~row[sess[s].owner].suspended /\ row[sess[s].owner].role = sess[s].role
    BY <1>3, <1>4, <2>1, <2>4
  <2> QED
    BY <2>2, <2>3, <2>4
<1>10. NoPunishmentWithoutCause'
  BY <1>2, <1>4 DEF GuardInv, NoPunishmentWithoutCause
<1> QED
  BY <1>4, <1>7, <1>8, <1>9, <1>10 DEF GuardInv

\* upsert() reads the role that stands.
LEMMA OpUpsertStep ==
    ASSUME GuardInv, NEW o \in Op, OpUpsert(o)
    PROVE  GuardInv'
<1>1. PICK p \in Principal, r \in AclRecord :
         /\ op' = [op EXCEPT ![o] = [pc |-> "write", p |-> p, new |-> r,
                                     prev |-> IF row[p] = None THEN None ELSE row[p].role]]
         /\ Mingle(o, p)
  BY DEF OpUpsert
<1>2. /\ op[o].pc = "idle"
      /\ UNCHANGED <<clock, backend, declared, row, sess, task, banned, unheard, touched>>
  BY DEF OpUpsert, config
<1> PICK prev : prev = IF row[p] = None THEN None ELSE row[p].role
  OBVIOUS
<1>3. prev \in Opt(STRING)
  BY DEF GuardInv, TypeOK, Opt, AclRow
<1>4. [pc |-> "write", p |-> p, new |-> r, prev |-> prev] \in OpRecord
  BY <1>3 DEF OpRecord, Opt
<1>5. /\ op' \in [Op -> OpRecord] /\ op'[o] = [pc |-> "write", p |-> p, new |-> r, prev |-> prev]
      /\ \A x \in Op : x # o => op'[x] = op[x]
  BY <1>1, <1>4 DEF GuardInv, TypeOK
<1>6. op'[o].pc = "write" /\ op'[o].p = p /\ op'[o].new = r /\ op'[o].prev = prev
  BY <1>5
<1>7. /\ mingled \subseteq mingled' /\ mingled' \subseteq Principal
      /\ Overlapping(o, p) => p \in mingled'
  BY <1>1 DEF Mingle, GuardInv, TypeOK
<1>8. TypeOK'
  BY <1>2, <1>5, <1>7 DEF GuardInv, TypeOK
<1>9. TasksInOrder'
  BY <1>2 DEF GuardInv, TasksInOrder, GuardInOrder, LoginInOrder, Grants
<1>10. RowsStand' /\ NoPunishmentWithoutCause'
  BY <1>2 DEF GuardInv, RowsStand, NoPunishmentWithoutCause
<1>11. OpsInOrder'
  <2>1. \A x \in Op : op'[x].pc = "revoke" => op'[x].p \in touched'
    BY <1>2, <1>5, <1>6 DEF GuardInv, OpsInOrder
  <2>2. ASSUME NEW x \in Op, op'[x].pc = "write"
        PROVE  /\ op'[x].p \in Principal /\ op'[x].new \in AclRecord
               /\ op'[x].prev # None =>
                     op'[x].p \in touched' \/ (row'[op'[x].p] # None /\ row'[op'[x].p].role = op'[x].prev)
               /\ op'[x].p \notin mingled' =>
                     op'[x].prev = IF row'[op'[x].p] = None THEN None ELSE row'[op'[x].p].role
    <3>1. CASE x = o
      BY <1>2, <1>6, <3>1
    <3>2. CASE x # o
      BY <1>2, <1>5, <1>7, <2>2, <3>2 DEF GuardInv, OpsInOrder
    <3> QED
      BY <3>1, <3>2
  <2>3. ASSUME NEW y \in Op, NEW x \in Op, y # x, op'[y].p = op'[x].p,
               op'[y].pc \in {"write", "revoke"}, op'[x].pc \in {"write", "revoke"}
        PROVE  op'[y].p \in mingled'
    <3>1. CASE y = o
      BY <1>5, <1>6, <1>7, <2>3, <3>1 DEF Overlapping
    <3>2. CASE x = o
      BY <1>5, <1>6, <1>7, <2>3, <3>2 DEF Overlapping
    <3>3. CASE y # o /\ x # o
      BY <1>5, <1>7, <2>3, <3>3 DEF GuardInv, OpsInOrder
    <3> QED
      BY <3>1, <3>2, <3>3
  <2> QED
    BY <2>1, <2>2, <2>3 DEF OpsInOrder
<1>12. RoleKept'
  BY <1>2, <1>5, <1>6, <1>7 DEF GuardInv, RoleKept
<1> QED
  BY <1>8, <1>9, <1>10, <1>11, <1>12 DEF GuardInv

\* upsert() writes the row; it leaves the sessions alone only if the role is the one they
\* carry, or there was no row for them to be made from.
LEMMA OpWriteStep ==
    ASSUME GuardInv, NEW o \in Op, OpWrite(o)
    PROVE  GuardInv'
<1> PICK p, r, prev : p = op[o].p /\ r = op[o].new /\ prev = op[o].prev
  OBVIOUS
<1>1. /\ op[o].pc = "write" /\ Write(p, r, r.suspended)
      /\ op' = [op EXCEPT ![o] = IF MustRevoke(op[o]) THEN [NoOp EXCEPT !.pc = "revoke", !.p = p]
                                 ELSE [NoOp EXCEPT !.pc = "done"]]
      /\ UNCHANGED <<clock, backend, declared, sess, mingled>>
  BY DEF OpWrite, config
<1>2. /\ p \in Principal /\ r \in AclRecord
      /\ prev # None => p \in touched \/ (row[p] # None /\ row[p].role = prev)
      /\ p \notin mingled => prev = IF row[p] = None THEN None ELSE row[p].role
  BY <1>1 DEF GuardInv, OpsInOrder
<1>3. r \in AclRow /\ r \in Opt(AclRow) /\ r # None /\ r.suspended \in BOOLEAN
  BY <1>2, GuardAssumption, NoneAssumption DEF Opt, AclRow
<1>4. /\ row' \in [Principal -> Opt(AclRow)] /\ row'[p] = r
      /\ \A x \in Principal : x # p => row'[x] = row[x]
      /\ task' \in [Task -> TaskRecord] /\ TasksInOrder' /\ RowsStand'
      /\ banned' \subseteq Principal /\ unheard' \subseteq Principal /\ touched' \subseteq Principal
      /\ touched \subseteq touched' /\ (r.suspended => p \in touched')
      /\ row[p] # None /\ r.role # row[p].role => p \in touched'
  BY <1>1, <1>2, <1>3, WriteEffect
<1>5. MustRevoke(op[o]) <=> r.suspended \/ (prev # None /\ prev # r.role)
  BY DEF MustRevoke
<1>6. /\ op' \in [Op -> OpRecord]
      /\ \A x \in Op : x # o => op'[x] = op[x]
      /\ MustRevoke(op[o]) => op'[o].pc = "revoke" /\ op'[o].p = p
      /\ ~MustRevoke(op[o]) => op'[o].pc = "done"
  BY <1>1, <1>2, OpTypes DEF GuardInv, TypeOK
<1>7. MustRevoke(op[o]) => p \in touched'
  BY <1>2, <1>4, <1>5
<1>8. Overlapping(o, p) => p \in mingled'
  BY <1>1 DEF Overlapping, GuardInv, OpsInOrder
<1>9. TypeOK'
  BY <1>1, <1>4, <1>6 DEF GuardInv, TypeOK, Task
<1>10. OpsInOrder'
  BY <1>1, <1>2, <1>3, <1>4, <1>6, <1>7, <1>8, OpsWritten
<1>11. RoleKept'
  <2> SUFFICES ASSUME NEW s \in Session, sess[s].owner # None, ~sess[s].revoked, ~sess[s].stale,
                      sess[s].owner \notin mingled
               PROVE  \/ ~row'[sess[s].owner].suspended /\ row'[sess[s].owner].role = sess[s].role
                      \/ \E x \in Op : op'[x].p = sess[s].owner /\ op'[x].pc = "revoke"
    BY <1>1 DEF RoleKept
  <2>1. sess[s].owner \in Principal /\ row[sess[s].owner] # None
    BY DEF GuardInv, TypeOK, SessionRecord, Opt, RowsStand
  <2>2. \/ ~row[sess[s].owner].suspended /\ row[sess[s].owner].role = sess[s].role
        \/ \E x \in Op : op[x].p = sess[s].owner /\ op[x].pc = "revoke"
    BY DEF GuardInv, RoleKept
  <2>3. CASE \E x \in Op : op[x].p = sess[s].owner /\ op[x].pc = "revoke"
    BY <1>1, <1>6, <2>3
  <2>4. CASE sess[s].owner # p /\ ~row[sess[s].owner].suspended /\ row[sess[s].owner].role = sess[s].role
    BY <1>4, <2>1, <2>4
  <2>5. CASE sess[s].owner = p /\ row[p].role = sess[s].role
    <3>1. prev = sess[s].role /\ prev # None
      <4>1. row[p] \in AclRow
        BY <1>2, <2>1, <2>5 DEF GuardInv, TypeOK, Opt
      <4> QED
        BY <1>2, <2>1, <2>5, <4>1, NoneAssumption DEF AclRow
    <3>2. CASE MustRevoke(op[o])
      BY <1>6, <2>5, <3>2
    <3>3. CASE ~MustRevoke(op[o])
      BY <1>4, <1>5, <2>5, <3>1, <3>3
    <3> QED
      BY <3>2, <3>3
  <2> QED
    BY <2>2, <2>3, <2>4, <2>5
<1>12. NoPunishmentWithoutCause'
  BY <1>1, <1>4 DEF GuardInv, NoPunishmentWithoutCause
<1> QED
  BY <1>4, <1>9, <1>10, <1>11, <1>12 DEF GuardInv

\* The sessions are ended, and the call is through.
LEMMA OpRevokeStep ==
    ASSUME GuardInv, NEW o \in Op, OpRevoke(o)
    PROVE  GuardInv'
<1> PICK p, n : p = op[o].p /\ n = [NoOp EXCEPT !.pc = "done"]
  OBVIOUS
<1>1. /\ op[o].pc = "revoke" /\ RevokeSessionsOf(p) /\ op' = [op EXCEPT ![o] = n]
      /\ UNCHANGED <<clock, backend, declared, row, task, banned, unheard, touched, mingled>>
  BY DEF OpRevoke, config, ghosts
<1>2. p \in touched
  BY <1>1 DEF GuardInv, OpsInOrder
<1>3. /\ op' \in [Op -> OpRecord] /\ op'[o].pc = "done"
      /\ \A x \in Op : x # o => op'[x] = op[x]
  BY <1>1, OpTypes DEF GuardInv, TypeOK
<1>4. sess' \in [Session -> SessionRecord] /\ RowsStand' /\ RoleKept' /\ NoPunishmentWithoutCause'
  <2>1. \A x \in Op : op[x].pc = "revoke" /\ op[x].p # p => op'[x] = op[x]
    BY <1>3
  <2> QED
    BY <1>1, <1>2, <2>1, Revoked
<1>5. TypeOK'
  BY <1>1, <1>3, <1>4 DEF GuardInv, TypeOK
<1>6. TasksInOrder'
  BY <1>1 DEF GuardInv, TasksInOrder, GuardInOrder, LoginInOrder, Grants
<1>7. OpsInOrder'
  BY <1>1, <1>3 DEF GuardInv, OpsInOrder
<1> QED
  BY <1>4, <1>5, <1>6, <1>7 DEF GuardInv

\* A release that has lost a role grants less than the one before.
LEMMA DeployStep ==
    ASSUME GuardInv, Deploy
    PROVE  GuardInv'
<1>1. /\ declared' \subseteq declared
      /\ UNCHANGED <<clock, backend, row, sess, task, op, banned, unheard, touched, mingled>>
  BY DEF Deploy, ghosts
<1>2. TypeOK'
  BY <1>1 DEF GuardInv, TypeOK
<1>3. TasksInOrder'
  BY <1>1 DEF GuardInv, TasksInOrder, GuardInOrder, LoginInOrder, Grants
<1>4. RowsStand' /\ OpsInOrder' /\ RoleKept' /\ NoPunishmentWithoutCause'
  BY <1>1 DEF GuardInv, RowsStand, OpsInOrder, RoleKept, NoPunishmentWithoutCause
<1> QED
  BY <1>2, <1>3, <1>4 DEF GuardInv

\* Time passes, or nothing does.
LEMMA TickStep ==
    ASSUME GuardInv, Tick \/ UNCHANGED vars
    PROVE  GuardInv'
<1>1. UNCHANGED <<backend, declared, row, sess, task, op, banned, unheard, touched, mingled>>
  BY DEF Tick, vars, config, ghosts
<1>2. clock' \in 0..MaxTime
  BY GuardAssumption DEF Tick, vars, GuardInv, TypeOK
<1>3. TypeOK'
  BY <1>1, <1>2 DEF GuardInv, TypeOK
<1>4. TasksInOrder'
  BY <1>1 DEF GuardInv, TasksInOrder, GuardInOrder, LoginInOrder, Grants
<1>5. RowsStand' /\ OpsInOrder' /\ RoleKept' /\ NoPunishmentWithoutCause'
  BY <1>1 DEF GuardInv, RowsStand, OpsInOrder, RoleKept, NoPunishmentWithoutCause
<1> QED
  BY <1>3, <1>4, <1>5 DEF GuardInv

-----------------------------------------------------------------------------
(* The inductive invariant, and what follows of the states. *)

\* GuardInv holds initially: no request is under way, and whoever starts out suspended is
\* counted as banned.
LEMMA GuardInit ==
    ASSUME Init
    PROVE  GuardInv
<1>1. NoSession \in SessionRecord /\ NoSession.owner = None /\ ~NoSession.revoked
  BY DEF NoSession, SessionRecord, Opt
<1>2. NoTask \in TaskRecord /\ NoTask.pc = "idle"
  BY DEF NoTask, TaskRecord, Opt, Decision, NoDecision, Code
<1>3. NoOp \in OpRecord /\ NoOp.pc = "idle"
  BY DEF NoOp, OpRecord, Opt
<1>4. row \in [Principal -> Opt(AclRow)]
  BY GuardAssumption DEF Init
<1>5. TypeOK
  BY <1>1, <1>2, <1>3, <1>4, GuardAssumption DEF Init, TypeOK
<1>6. TasksInOrder
  BY <1>2 DEF Init, TasksInOrder, GuardInOrder, LoginInOrder
<1>7. RowsStand
  BY <1>1 DEF Init, RowsStand
<1>8. OpsInOrder
  BY <1>3 DEF Init, OpsInOrder
<1>9. RoleKept /\ NoPunishmentWithoutCause
  BY <1>1 DEF Init, RoleKept, NoPunishmentWithoutCause
<1> QED
  BY <1>5, <1>6, <1>7, <1>8, <1>9 DEF GuardInv

\* A step that is not a mere passing of time is a step of one login, request or call.
LEMMA GuardNext ==
    ASSUME GuardInv, [Next]_vars
    PROVE  GuardInv'
<1>1. ASSUME NEW s \in Session, LoginStart(s) \/ LoginInsert(s)
      PROVE  GuardInv'
  BY <1>1, LoginStartStep, LoginInsertStep
<1>2. ASSUME NEW t \in Task, AclGet(t) \/ AclProvision(t) \/ AclReget(t)
      PROVE  GuardInv'
  BY <1>2, AclGetStep, AclProvisionStep, AclRegetStep
<1>3. ASSUME NEW g \in GuardReq, GuardNoSession(g) \/ GuardThrow(g)
      PROVE  GuardInv'
  <2>1. g \in Task /\ "NAP_GUARD_NO_SESSION" \in Code /\ "thrown" \in Code
    BY DEF Task, Code
  <2> QED
    BY <1>3, <2>1, AnswerStep DEF GuardNoSession, GuardThrow
<1>4. ASSUME NEW g \in GuardReq,
             GuardLookup(g) \/ GuardCheck(g) \/ GuardDecide(g) \/ GuardRevoke(g)
      PROVE  GuardInv'
  BY <1>4, GuardLookupStep, GuardCheckStep, GuardDecideStep, GuardRevokeStep
<1>5. ASSUME NEW o \in Op,
             OpSuspend(o) \/ OpUnsuspend(o) \/ OpUpsert(o) \/ OpWrite(o) \/ OpRevoke(o)
      PROVE  GuardInv'
  BY <1>5, OpSuspendStep, OpUnsuspendStep, OpUpsertStep, OpWriteStep, OpRevokeStep
<1>6. CASE Deploy
  BY <1>6, DeployStep
<1>7. CASE Tick \/ Quiet \/ UNCHANGED vars
  BY <1>7, TickStep DEF Quiet
<1> QED
  BY <1>1, <1>2, <1>3, <1>4, <1>5, <1>6, <1>7 DEF Next, Task

\* GuardInv holds in every reachable state, however logins, requests and the operator's
\* calls interleave.
THEOREM GuardsInductive == Spec => []GuardInv
<1>1. Init => GuardInv
  BY GuardInit
<1>2. GuardInv /\ [Next]_vars => GuardInv'
  BY GuardNext
<1> QED
  BY <1>1, <1>2, PTL DEF Spec

\* Rows, sessions, requests and operator calls have their types: whatever upsert, suspend or
\* auto-provisioning writes is a row the ACL store may hold.
THEOREM GuardTypes == Spec => []TypeOK
<1>1. GuardInv => TypeOK
  BY DEF GuardInv
<1> QED
  BY <1>1, GuardsInductive, PTL

\* acl.ts: only a suspension, or another role, ever costs a principal a session; a missing
\* row, an undeclared role or a store that fails does not.
THEOREM Cause == Spec => []NoPunishmentWithoutCause
<1>1. GuardInv => NoPunishmentWithoutCause
  BY DEF GuardInv
<1> QED
  BY <1>1, GuardsInductive, PTL

\* createRevokingAclStore: once the operator's calls are through, a session that still works
\* carries its owner's role, and its owner is not suspended.
THEOREM RoleChange == Spec => []RoleChangeEndsSessions
<1>1. GuardInv => RoleChangeEndsSessions
  BY DEF GuardInv, RoleKept, RoleChangeEndsSessions
<1> QED
  BY <1>1, GuardsInductive, PTL

-----------------------------------------------------------------------------
(* What admits a request. *)

\* Only the check of the session and the verdict of the resolver admit anybody.
LEMMA WhoAdmits ==
    ASSUME GuardInv, Next, NEW g \in GuardReq, Admits(g)
    PROVE  GuardCheck(g) \/ GuardDecide(g)
<1>1. g \in Task /\ g \notin Session /\ task[g] \in TaskRecord /\ DOMAIN task = Task
  BY InOrder DEF GuardInv, TypeOK, Task
<1>2. task'[g].code # task[g].code /\ task'[g].code = "admitted"
  BY DEF Admits
<1>3. ASSUME NEW t \in Task, NEW q, Become(t, q)
      PROVE  t = g /\ q.code = "admitted" /\ q.code # task[g].code
  BY <1>1, <1>2, <1>3 DEF Become, GuardInv, TypeOK, Task
<1>4. ASSUME NEW p, NEW r, NEW b, task'[g] = Witness(g, p, r, b)
      PROVE  FALSE
  <2> PICK q : q = Witness(g, p, r, b)
    OBVIOUS
  <2>1. q.code = task[g].code
    BY <1>1, WitnessEffect DEF GuardInv
  <2> QED
    BY <1>2, <1>4, <2>1
<1>5. ASSUME NEW s \in Session, LoginStart(s) \/ LoginInsert(s)
      PROVE  FALSE
  BY <1>1, <1>2, <1>5 DEF LoginStart, LoginInsert, Become, GuardInv, TypeOK, Task
<1>6. ASSUME NEW t \in Task, AclGet(t)
      PROVE  FALSE
  <2>1. CASE Become(t, Resolved(t, row[task[t].p]))
    <3> PICK q : q = Resolved(t, row[task[t].p])
      OBVIOUS
    <3>1. t = g /\ q.code # task[g].code
      BY <1>3, <2>1
    <3>2. q = [task[g] EXCEPT !.pc = "decide", !.dec = Resolve(row[task[g].p])]
      BY <3>1 DEF Resolved
    <3> QED
      BY <1>1, <3>1, <3>2 DEF TaskRecord
  <2>2. CASE Become(t, [task[t] EXCEPT !.pc = "provision"])
    <3>1. t = g /\ [task[t] EXCEPT !.pc = "provision"].code # task[g].code
      BY <1>3, <2>2
    <3> QED
      BY <1>1, <3>1 DEF TaskRecord
  <2> QED
    BY <1>6, <2>1, <2>2 DEF AclGet
<1>7. ASSUME NEW t \in Task, AclReget(t)
      PROVE  FALSE
  <2> PICK q : q = Resolved(t, row[task[t].p])
    OBVIOUS
  <2>1. t = g /\ q.code # task[g].code
    BY <1>3, <1>7 DEF AclReget
  <2>2. q = [task[g] EXCEPT !.pc = "decide", !.dec = Resolve(row[task[g].p])]
    BY <2>1 DEF Resolved
  <2> QED
    BY <1>1, <2>1, <2>2 DEF TaskRecord
<1>8. ASSUME NEW t \in Task, AclProvision(t)
      PROVE  FALSE
  <2> PICK p, q : p = task[t].p /\ q = Witness(g, p, FreshRow, banned)
    OBVIOUS
  <2>1. task'[g] = IF g = t THEN [q EXCEPT !.pc = "reget"] ELSE q
    BY <1>1, <1>8 DEF AclProvision
  <2>2. q \in TaskRecord /\ q.code = task[g].code
    BY <1>1, WitnessEffect DEF GuardInv
  <2> QED
    BY <1>2, <2>1, <2>2 DEF TaskRecord
<1>9. ASSUME NEW h \in GuardReq, NEW code \in Code \ {"admitted"}, Answer(h, code)
      PROVE  FALSE
  <2>1. h \in Task
    BY DEF Task
  <2>2. [NoTask EXCEPT !.pc = "done", !.code = code].code = code
    BY AnswerType
  <2> QED
    BY <1>3, <1>9, <2>1, <2>2 DEF Answer
<1>10. ASSUME NEW h \in GuardReq, GuardNoSession(h) \/ GuardRevoke(h) \/ GuardThrow(h)
       PROVE  FALSE
  <2>1. {"NAP_GUARD_NO_SESSION", "NAP_GUARD_ACL_DENIED", "thrown"} \subseteq Code \ {"admitted"}
    BY DEF Code
  <2> QED
    BY <1>9, <1>10, <2>1 DEF GuardNoSession, GuardRevoke, GuardThrow
<1>11. ASSUME NEW h \in GuardReq, GuardLookup(h)
       PROVE  FALSE
  <2>1. PICK x \in Shape, s \in Session, su \in Opt(Session) :
           Become(h, [NoTask EXCEPT !.pc = "check", !.shape = x, !.sid = s, !.token = su,
                                    !.p = sess[s].owner,
                                    !.barred = sess[s].owner \in banned,
                                    !.granted = Grants(row[sess[s].owner], x)])
    BY <1>11 DEF GuardLookup
  <2> PICK q : q = [NoTask EXCEPT !.pc = "check", !.shape = x, !.sid = s, !.token = su,
                                  !.p = sess[s].owner,
                                  !.barred = sess[s].owner \in banned,
                                  !.granted = Grants(row[sess[s].owner], x)]
    OBVIOUS
  <2>2. q.code = "none"
    BY DEF NoTask
  <2> QED
    BY <1>3, <2>1, <2>2 DEF Task
<1>12. ASSUME NEW h \in GuardReq, GuardCheck(h) \/ GuardDecide(h)
       PROVE  h = g
  BY <1>3, <1>12 DEF GuardCheck, GuardDecide, Answer, Task
<1>13. ASSUME NEW o \in Op, OpSuspend(o) \/ OpUnsuspend(o) \/ OpWrite(o)
       PROVE  FALSE
  <2>1. PICK p, r, bans : Write(p, r, bans)
    BY <1>13 DEF OpSuspend, OpUnsuspend, OpWrite
  <2> PICK b : b = banned'
    OBVIOUS
  <2>2. task'[g] = Witness(g, p, r, b)
    BY <1>1, <2>1 DEF Write
  <2> QED
    BY <1>4, <2>2
<1>14. CASE \/ \E o \in Op : OpUpsert(o) \/ OpRevoke(o)
            \/ Deploy \/ Tick \/ Quiet
  BY <1>2, <1>14 DEF OpUpsert, OpRevoke, Deploy, Tick, Quiet, vars
<1> QED
  BY <1>5, <1>6, <1>7, <1>8, <1>10, <1>11, <1>12, <1>13, <1>14 DEF Next, Task

\* README.md:97: with an aclResolver, a request whose principal was suspended all the while
\* is not admitted, unless the suspension never stood in the row.
THEOREM Suspension == Spec => SuspendedIsOut
<1>1. GuardInv /\ [Next]_vars =>
         [\A g \in GuardReq :
             Admits(g) /\ ReadsAcl(g) /\ task[g].barred => task[g].p \in unheard]_vars
  <2> SUFFICES ASSUME GuardInv, Next, NEW g \in GuardReq, Admits(g), ReadsAcl(g), task[g].barred
               PROVE  task[g].p \in unheard
    OBVIOUS
  <2> PICK q : q = task[g]
    OBVIOUS
  <2>1. q \in TaskRecord /\ GuardInOrder(q) /\ g \in Task /\ DOMAIN task = Task
    BY InOrder DEF GuardInv, TypeOK, Task
  <2>2. ASSUME NEW x, Become(g, x)
        PROVE  x.code = "admitted" /\ x.code # q.code
    BY <2>1, <2>2 DEF Become, Admits
  <2>3. CASE GuardCheck(g)
    <3>1. ~(q.shape.kind = "stepUp") /\ q.shape.resolver
      BY DEF ReadsAcl
    <3>2. [NoTask EXCEPT !.pc = "done", !.code = "NAP_GUARD_NO_SESSION"].code = "NAP_GUARD_NO_SESSION"
      BY AnswerType DEF Code
    <3>3. [q EXCEPT !.pc = "get"].code = q.code
      BY <2>1 DEF TaskRecord
    <3> QED
      BY <2>2, <2>3, <3>1, <3>2, <3>3 DEF GuardCheck, Answer
  <2>4. CASE GuardDecide(g)
    <3>1. [q EXCEPT !.pc = "revoke"].code = q.code
      BY <2>1 DEF TaskRecord
    <3>2. CASE ~q.dec.allowed
      <4>1. Verdict(q, q.dec.allowed, q.dec.role, q.dec.perms) = "NAP_GUARD_ACL_DENIED"
        BY <3>2 DEF Verdict
      <4>2. [NoTask EXCEPT !.pc = "done", !.code = "NAP_GUARD_ACL_DENIED"].code = "NAP_GUARD_ACL_DENIED"
        BY AnswerType DEF Code
      <4> QED
        BY <2>2, <2>4, <3>1, <4>1, <4>2 DEF GuardDecide, Answer
    <3>3. CASE q.dec.allowed
      BY <2>1, <2>4, <3>3 DEF GuardDecide, GuardInOrder
    <3> QED
      BY <3>2, <3>3
  <2> QED
    BY <2>3, <2>4, WhoAdmits
<1> QED
  BY <1>1, GuardsInductive, PTL DEF Spec, SuspendedIsOut

\* A guard that concludes "admitted" was allowed, satisfied and, where it asks for step-up,
\* given a token that is still good.
LEMMA VerdictAdmits ==
    ASSUME NEW q, NEW allowed, NEW role, NEW perms, q.shape \in Shape, q.shape.kind # "stepUp",
           Verdict(q, allowed, role, perms) = "admitted"
    PROVE  /\ allowed
           /\ q.shape.kind = "permission" => q.shape.want \in perms
           /\ q.shape.kind = "role" => q.shape.want = role
           /\ NeedsStepUp(q.shape) => HasValidStepUpToken(q)
<1>1. q.shape.kind \in {"permission", "role", "session"}
  BY RegistryAssumption
<1> QED
  BY <1>1 DEF Verdict, NeedsStepUp

\* What a request was admitted on stood while it was judged: the ACL itself granted it at
\* some moment of the request, and the step-up token was the session's own and fresh.
THEOREM Authority == Spec => LiveAuthority
<1>1. GuardInv /\ [Next]_vars =>
         [\A g \in GuardReq :
             Admits(g) =>
                LET q == task[g] IN
                /\ ReadsAcl(g) => q.granted
                /\ NeedsStepUp(q.shape)
                     => q.token = q.sid /\ sess[q.sid].stepExp # None /\ clock < sess[q.sid].stepExp]_vars
  <2> SUFFICES ASSUME GuardInv, Next, NEW g \in GuardReq, Admits(g)
               PROVE  /\ ReadsAcl(g) => task[g].granted
                      /\ NeedsStepUp(task[g].shape) =>
                            /\ task[g].token = task[g].sid /\ sess[task[g].sid].stepExp # None
                            /\ clock < sess[task[g].sid].stepExp
    OBVIOUS
  <2> PICK q : q = task[g]
    OBVIOUS
  <2>1. q \in TaskRecord /\ GuardInOrder(q) /\ g \in Task /\ DOMAIN task = Task
    BY InOrder DEF GuardInv, TypeOK, Task
  <2>2. ASSUME NEW x, Become(g, x)
        PROVE  x.code = "admitted" /\ x.code # q.code
    BY <2>1, <2>2 DEF Become, Admits
  <2>3. ASSUME NEW code \in Code, Answer(g, code)
        PROVE  code = "admitted"
    <3> PICK x : x = [NoTask EXCEPT !.pc = "done", !.code = code]
      OBVIOUS
    <3>1. x.code = code
      BY AnswerType
    <3>2. Become(g, x)
      BY <2>3 DEF Answer
    <3> QED
      BY <2>2, <3>1, <3>2
  <2>4. \A pc : [q EXCEPT !.pc = pc].code = q.code
    BY <2>1 DEF TaskRecord
  <2>5. HasValidStepUpToken(q) => /\ q.token = q.sid /\ sess[q.sid].stepExp # None
                                  /\ clock < sess[q.sid].stepExp
    <3> SUFFICES ASSUME HasValidStepUpToken(q)
                 PROVE  clock < sess[q.sid].stepExp
      BY DEF HasValidStepUpToken
    <3> PICK e : e = sess[q.sid].stepExp
      OBVIOUS
    <3>1. e > clock
      BY DEF HasValidStepUpToken
    <3> QED
      BY <3>1
  <2>6. CASE GuardCheck(g)
    <3>1. q.pc = "check" /\ q.shape \in Shape
      BY <2>1, <2>6 DEF GuardCheck, GuardInOrder
    <3>2. CASE Answer(g, "NAP_GUARD_NO_SESSION")
      BY <2>3, <3>2 DEF Code
    <3>3. CASE /\ q.shape.kind = "stepUp"
               /\ Answer(g, IF HasValidStepUpToken(q) THEN "admitted" ELSE "NAP_GUARD_STEP_UP_REQUIRED")
      BY <2>3, <2>5, <3>3 DEF Code, ReadsAcl
    <3>4. CASE /\ q.shape.kind # "stepUp" /\ ~q.shape.resolver
               /\ Answer(g, Verdict(q, TRUE, sess[q.sid].role, sess[q.sid].perms))
      <4> PICK role, perms : role = sess[q.sid].role /\ perms = sess[q.sid].perms
        OBVIOUS
      <4>1. Verdict(q, TRUE, role, perms) = "admitted"
        BY <2>3, <3>1, <3>4, VerdictType
      <4>2. q.shape \in Shape /\ q.shape.kind # "stepUp"
        BY <3>1, <3>4
      <4>3. NeedsStepUp(q.shape) => HasValidStepUpToken(q)
        BY <4>1, <4>2, VerdictAdmits
      <4> QED
        BY <2>5, <3>4, <4>3 DEF ReadsAcl
    <3>5. CASE Become(g, [q EXCEPT !.pc = "get"])
      BY <2>2, <2>4, <3>5
    <3> QED
      BY <2>6, <3>2, <3>3, <3>4, <3>5 DEF GuardCheck
  <2>7. CASE GuardDecide(g)
    <3>1. /\ q.pc = "decide" /\ q.shape \in Shape /\ q.shape.kind # "stepUp"
          /\ Satisfies(q.dec, q.shape) => q.granted
      BY <2>1, <2>7 DEF GuardDecide, GuardInOrder
    <3>2. CASE Answer(g, Verdict(q, q.dec.allowed, q.dec.role, q.dec.perms))
      <4>1. Verdict(q, q.dec.allowed, q.dec.role, q.dec.perms) = "admitted"
        BY <2>3, <3>1, <3>2, VerdictType
      <4>2. /\ q.dec.allowed
            /\ q.shape.kind = "permission" => q.shape.want \in q.dec.perms
            /\ q.shape.kind = "role" => q.shape.want = q.dec.role
            /\ NeedsStepUp(q.shape) => HasValidStepUpToken(q)
        BY <3>1, <4>1, VerdictAdmits
      <4> QED
        BY <2>5, <3>1, <4>2 DEF Satisfies
    <3>3. CASE Become(g, [q EXCEPT !.pc = "revoke"])
      BY <2>2, <2>4, <3>3
    <3> QED
      BY <2>7, <3>2, <3>3 DEF GuardDecide
  <2> QED
    BY <2>6, <2>7, WhoAdmits
<1> QED
  BY <1>1, GuardsInductive, PTL DEF Spec, LiveAuthority
=============================================================================
