------------------------- MODULE RemoteSignerProofs -------------------------
(***************************************************************************)
(* Why the pairing of a remote signer is always one its bunker agreed to,  *)
(* why no failure of connect() or disconnect() leaves sockets that nobody  *)
(* can close, and why what is stored is what is in use, for any number of  *)
(* calls and connections.                                                  *)
(***************************************************************************)
EXTENDS RemoteSigner, TLAPS

-----------------------------------------------------------------------------
(* What the three ways of moving a call do to it. *)

Others(c) == \A d \in Call \ {c} : call'[d] = call[d]

\* Go moves a call to another stage and keeps the rest of it.
LEMMA GoEffect ==
    ASSUME call \in [Call -> CallRecord], NEW c \in Call, NEW pc \in Pc, Go(c, pc)
    PROVE  /\ call' \in [Call -> CallRecord] /\ Others(c)
           /\ call'[c].pc = pc /\ call'[c].conn = call[c].conn
           /\ call'[c].op = call[c].op /\ call'[c].alone = call[c].alone
<1>1. call[c] \in CallRecord
  OBVIOUS
<1>2. [call[c] EXCEPT !.pc = pc] \in CallRecord
  BY <1>1 DEF CallRecord
<1>3. call' = [call EXCEPT ![c] = [call[c] EXCEPT !.pc = pc]]
  BY DEF Go
<1>4. call' \in [Call -> CallRecord] /\ Others(c) /\ call'[c] = [call[c] EXCEPT !.pc = pc]
  BY <1>2, <1>3 DEF Others
<1> QED
  BY <1>1, <1>4 DEF CallRecord

\* What a call can be noted as
Noted == {"none", "connect", "disconnect", "kept"}

\* SettleAs leaves a call idle, and notes it if it was alone.
LEMMA SettleAsEffect ==
    ASSUME TypeOK, NEW c \in Call, NEW what \in Noted, SettleAs(c, what)
    PROVE  /\ call' \in [Call -> CallRecord] /\ Others(c) /\ call'[c].pc = "idle"
           /\ last' = IF call[c].alone THEN what ELSE "mixed"
           /\ last' \in {"none", "connect", "disconnect", "kept", "mixed"}
<1>1. Idle \in CallRecord /\ Idle.pc = "idle"
  BY DEF Idle, CallRecord, Opt, Pc
<1>2. call' = [call EXCEPT ![c] = Idle] /\ last' = IF call[c].alone THEN what ELSE "mixed"
  BY DEF SettleAs
<1> QED
  BY <1>1, <1>2 DEF TypeOK, Others, Noted

\* Settle notes the call by its name.
LEMMA SettleEffect ==
    ASSUME TypeOK, NEW c \in Call, Settle(c)
    PROVE  /\ call' \in [Call -> CallRecord] /\ Others(c) /\ call'[c].pc = "idle"
           /\ last' = IF call[c].alone THEN call[c].op ELSE "mixed"
           /\ last' \in {"none", "connect", "disconnect", "kept", "mixed"}
           /\ call[c].op \in Noted /\ SettleAs(c, call[c].op)
<1>1. call[c].op \in Noted /\ SettleAs(c, call[c].op)
  BY DEF TypeOK, CallRecord, Noted, Settle
<1> QED
  BY <1>1, SettleAsEffect

\* Open takes a connection nobody has used, and makes it the call's.
LEMMA OpenEffect ==
    ASSUME TypeOK, NEW c \in Call, NEW pc \in Pc, NEW p \in Opt(0..MaxConn), Open(c, pc, p)
    PROVE  /\ call' \in [Call -> CallRecord] /\ Others(c)
           /\ call'[c].pc = pc /\ call'[c].op = call[c].op /\ call'[c].alone = call[c].alone
           /\ conn' \in [Conn -> [st : {"none", "open", "closed"}, p : Opt(0..MaxConn), zero : BOOLEAN]]
           /\ \A i \in Conn : /\ conn'[i].p = None <=> conn'[i].st = "none"
                              /\ conn'[i].zero => conn'[i].st = "closed"
           /\ call'[c].conn \in Conn
           /\ conn[call'[c].conn].st = "none" /\ conn'[call'[c].conn].st = "open"
           /\ p # None => conn'[call'[c].conn].p = p
           /\ \A j \in Conn : j # call'[c].conn => conn'[j] = conn[j]
<1>1. PICK i \in Fresh :
         /\ conn' = [conn EXCEPT ![i] = [st |-> "open", p |-> IF p = None THEN i ELSE p, zero |-> FALSE]]
         /\ call' = [call EXCEPT ![c] = [@ EXCEPT !.pc = pc, !.conn = i]]
  BY DEF Open
<1>2. i \in Conn /\ conn[i].st = "none"
  BY DEF Fresh
<1>3. i \in 0..MaxConn /\ i # None
  BY <1>2, RemoteAssumption, NoneAssumption DEF Conn
<1>4. call[c] \in CallRecord
  BY DEF TypeOK
<1>5. [call[c] EXCEPT !.pc = pc, !.conn = i] \in CallRecord
  BY <1>2, <1>4 DEF CallRecord, Opt
<1>6. /\ call' \in [Call -> CallRecord] /\ Others(c)
      /\ call'[c] = [call[c] EXCEPT !.pc = pc, !.conn = i]
  BY <1>1, <1>5 DEF TypeOK, Others
<1>7. call'[c].pc = pc /\ call'[c].op = call[c].op /\ call'[c].alone = call[c].alone /\ call'[c].conn = i
  BY <1>4, <1>6 DEF CallRecord
<1>8. PICK q : q = IF p = None THEN i ELSE p
  OBVIOUS
<1>9. q \in Opt(0..MaxConn) /\ q # None /\ (p # None => q = p)
  BY <1>3, <1>8 DEF Opt
<1>10. conn' = [conn EXCEPT ![i] = [st |-> "open", p |-> q, zero |-> FALSE]]
  BY <1>1, <1>8
<1>11. /\ conn' \in [Conn -> [st : {"none", "open", "closed"}, p : Opt(0..MaxConn), zero : BOOLEAN]]
       /\ conn'[i] = [st |-> "open", p |-> q, zero |-> FALSE]
       /\ \A j \in Conn : j # i => conn'[j] = conn[j]
  BY <1>2, <1>9, <1>10 DEF TypeOK
<1>12. conn'[i].st = "open" /\ conn'[i].p = q /\ conn'[i].zero = FALSE
  BY <1>11
<1>13. ASSUME NEW j \in Conn
       PROVE  (conn'[j].p = None <=> conn'[j].st = "none") /\ (conn'[j].zero => conn'[j].st = "closed")
  <2>1. CASE j = i
    BY <2>1, <1>9, <1>12
  <2>2. CASE j # i
    BY <2>2, <1>11 DEF TypeOK
  <2> QED
    BY <2>1, <2>2
<1> QED
  BY <1>2, <1>6, <1>7, <1>9, <1>11, <1>12, <1>13

\* What persist stores is a record of the store.
LEMMA StoredType ==
    ASSUME NEW S, NEW p \in S
    PROVE  [p |-> p, readable |-> TRUE] \in [p : S, readable : BOOLEAN]
  OBVIOUS

-----------------------------------------------------------------------------
(* What each of these ways does to the invariant. *)

\* A call that moves on without opening or closing anything; it may have dropped the stored
\* pairing on the way.
LEMMA Going ==
    ASSUME RemoteInv, NEW c \in Call, NEW pc \in Pc, Go(c, pc),
           UNCHANGED <<mode, storing, current, conn, req, acked, replaced, last, moves>>,
           pc \notin {"idle", "start", "restore", "close", "clear"},
           Holds(c) <=> Holds(c)',
           call[c].pc # "idle", call[c].op = "connect",
           pc = "load" => call[c].pc = "start",
           pc = "save" => storing /\ conn[call[c].conn].p \in acked,
           call[c].alone => current = None,
           \/ record' = record
           \/ record' = None /\ pc # "load"
    PROVE  RemoteInv'
<1>1. /\ call' \in [Call -> CallRecord] /\ Others(c)
      /\ call'[c].pc = pc /\ call'[c].conn = call[c].conn
      /\ call'[c].op = call[c].op /\ call'[c].alone = call[c].alone
  BY GoEffect DEF RemoteInv, TypeOK
<1>2. TypeOK'
  BY <1>1 DEF RemoteInv, TypeOK, Opt
<1>3. Holders'
  BY <1>1 DEF RemoteInv, Holders, Holds, Others
<1>4. Held'
  BY <1>1 DEF RemoteInv, Held, Holds, Others
<1>5. AckedFirst'
  BY <1>1 DEF RemoteInv, AckedFirst, OnlyAcknowledgedPairings, Others
<1>6. StoreUsed'
  BY <1>1 DEF RemoteInv, StoreUsed, Others
<1>7. Stages'
  BY <1>1 DEF RemoteInv, Stages, Others
<1>8. AloneIsAlone'
  BY <1>1 DEF RemoteInv, AloneIsAlone, Others
<1>9. Agreed'
  <2>1. CASE pc = "load"
    <3>1. Agreement => Agreement'
      BY <2>1 DEF Agreement
    <3>2. ASSUME NEW d \in Call, call[d].pc \notin {"idle", "start", "load"}, d # c
          PROVE  call'[d].pc \notin {"idle", "start", "load"}
      BY <1>1, <3>2 DEF Others
    <3> QED
      BY <3>1, <3>2, <1>1, <2>1 DEF RemoteInv, Agreed
  <2>2. CASE pc # "load"
    BY <1>1, <2>2 DEF Agreed
  <2> QED
    BY <2>1, <2>2
<1> QED
  BY <1>2, <1>3, <1>4, <1>5, <1>6, <1>7, <1>8, <1>9 DEF RemoteInv

\* A call that opens a connection, for the stored pairing or for one of its own.
LEMMA Opening ==
    ASSUME RemoteInv, NEW c \in Call, NEW pc \in {"restore", "pair", "wait"},
           NEW p \in Opt(0..MaxConn), Open(c, pc, p),
           UNCHANGED <<mode, storing, current, req, acked, replaced, last, moves>>,
           ~Holds(c), call[c].pc # "idle", call[c].op = "connect",
           call[c].alone => current = None,
           pc = "restore" => record # None /\ p # None /\ record.p = p,
           \/ record' = record
           \/ record' = None /\ pc # "restore"
    PROVE  RemoteInv'
<1> PICK i : i = call'[c].conn
  OBVIOUS
<1>1. /\ call' \in [Call -> CallRecord] /\ Others(c)
      /\ call'[c].pc = pc /\ call'[c].op = call[c].op /\ call'[c].alone = call[c].alone
      /\ conn' \in [Conn -> [st : {"none", "open", "closed"}, p : Opt(0..MaxConn), zero : BOOLEAN]]
      /\ \A j \in Conn : /\ conn'[j].p = None <=> conn'[j].st = "none"
                         /\ conn'[j].zero => conn'[j].st = "closed"
      /\ call'[c].conn = i
      /\ i \in Conn /\ conn[i].st = "none" /\ conn'[i].st = "open"
      /\ p # None => conn'[i].p = p
      /\ \A j \in Conn : j # i => conn'[j] = conn[j]
  BY OpenEffect DEF RemoteInv, Pc
<1>2. i # current /\ (current # None => current \in Conn /\ conn'[current] = conn[current])
  BY <1>1, NoneAssumption DEF RemoteInv, Holders, TypeOK, Opt, Conn
<1>3. \A d \in Call \ {c} : Holds(d) => call[d].conn # i /\ conn'[call[d].conn] = conn[call[d].conn]
  BY <1>1 DEF RemoteInv, Holders
<1>4. TypeOK'
  BY <1>1 DEF RemoteInv, TypeOK, Opt
<1>5. Holders'
  <2>1. ASSUME NEW d \in Call, Holds(d)'
        PROVE  /\ (call[d].conn)' \in Conn \ replaced' /\ (call[d].conn)' # current'
               /\ (conn[call[d].conn].st)' = "open"
    <3>1. CASE d = c
      BY <1>1, <1>2, <3>1 DEF RemoteInv, Holders
    <3>2. CASE d # c
      <4>1. call'[d] = call[d] /\ Holds(d)
        BY <1>1, <2>1, <3>2 DEF Others, Holds
      <4> QED
        BY <1>3, <3>2, <4>1 DEF RemoteInv, Holders
    <3> QED
      BY <3>1, <3>2
  <2>2. ASSUME NEW d \in Call, NEW e \in Call, Holds(d)', Holds(e)', d # e
        PROVE  (call[d].conn)' # (call[e].conn)'
    BY <1>1, <1>3, <2>2 DEF RemoteInv, Holders, Holds, Others
  <2>3. current' # None => current' \notin replaced' /\ (conn[current].st)' = "open"
    BY <1>2 DEF RemoteInv, Holders
  <2>4. \A j \in replaced' : (conn[j].st)' # "none"
    BY <1>1 DEF RemoteInv, Holders, TypeOK
  <2> QED
    BY <2>1, <2>2, <2>3, <2>4 DEF Holders
<1>6. Held'
  BY <1>1 DEF RemoteInv, Held, Holds, Others
<1>7. AckedFirst'
  BY <1>1, <1>2, <1>3 DEF RemoteInv, AckedFirst, OnlyAcknowledgedPairings, Others, Holds
<1>8. StoreUsed'
  BY <1>1 DEF RemoteInv, StoreUsed, Others
<1>9. Stages'
  BY <1>1 DEF RemoteInv, Stages, Others
<1>10. AloneIsAlone'
  BY <1>1 DEF RemoteInv, AloneIsAlone, Others
<1>11. Agreed'
  BY <1>1 DEF Agreed
<1> QED
  BY <1>4, <1>5, <1>6, <1>7, <1>8, <1>9, <1>10, <1>11 DEF RemoteInv


\* A call that ends without touching connections; it may have dropped the stored pairing.
LEMMA Settling ==
    ASSUME RemoteInv, NEW c \in Call, NEW what \in Noted, SettleAs(c, what),
           UNCHANGED <<mode, storing, current, conn, req, acked, replaced, moves>>,
           ~Holds(c), call[c].pc # "idle",
           record' = record \/ record' = None,
           call[c].alone => Agreement'
    PROVE  RemoteInv'
<1>1. /\ call' \in [Call -> CallRecord] /\ Others(c) /\ call'[c].pc = "idle"
      /\ last' = IF call[c].alone THEN what ELSE "mixed"
      /\ last' \in {"none", "connect", "disconnect", "kept", "mixed"}
  BY SettleAsEffect DEF RemoteInv
<1>2. TypeOK'
  BY <1>1 DEF RemoteInv, TypeOK, Opt
<1>3. Holders'
  BY <1>1 DEF RemoteInv, Holders, Holds, Others
<1>4. Held'
  BY <1>1 DEF RemoteInv, Held, Holds, Others
<1>5. AckedFirst'
  BY <1>1 DEF RemoteInv, AckedFirst, OnlyAcknowledgedPairings, Others
<1>6. StoreUsed'
  BY <1>1 DEF RemoteInv, StoreUsed, Others
<1>7. Stages'
  BY <1>1 DEF RemoteInv, Stages, Others
<1>8. AloneIsAlone'
  <2> SUFFICES ASSUME NEW d \in Call, call'[d].pc # "idle", call'[d].alone
               PROVE  /\ \A e \in Call \ {d} : call'[e].pc = "idle"
                      /\ call'[d].pc # "start" => current' = None
                      /\ call'[d].pc = "restore" => record' # None /\ record'.p = conn'[call'[d].conn].p
    BY DEF AloneIsAlone
  <2>1. d # c /\ call'[d] = call[d]
    BY <1>1 DEF Others
  <2>2. /\ \A e \in Call \ {d} : call[e].pc = "idle"
        /\ call[d].pc # "start" => current = None
        /\ call[d].pc = "restore" => record # None /\ record.p = conn[call[d].conn].p
    BY <2>1 DEF RemoteInv, AloneIsAlone
  <2> QED
    BY <1>1, <2>1, <2>2 DEF Others
<1>9. Agreed'
  <2>1. ~call[c].alone => Agreement'
    BY <1>1 DEF Agreement
  <2> QED
    BY <2>1 DEF Agreed
<1> QED
  BY <1>2, <1>3, <1>4, <1>5, <1>6, <1>7, <1>8, <1>9 DEF RemoteInv

\* A connect() that ends with the connection it held.
LEMMA Connecting ==
    ASSUME RemoteInv, NEW c \in Call, Connected(c), Holds(c),
           UNCHANGED <<mode, storing, conn, req, acked, moves>>,
           call[c].op = "connect",
           conn[call[c].conn].p \in acked,
           \/ record' = record /\ (storing => call[c].pc = "restore")
           \/ storing /\ record' = [p |-> conn[call[c].conn].p, readable |-> TRUE]
    PROVE  RemoteInv'
<1> PICK i : i = call[c].conn
  OBVIOUS
<1>1. /\ call' \in [Call -> CallRecord] /\ Others(c) /\ call'[c].pc = "idle"
      /\ last' = IF call[c].alone THEN call[c].op ELSE "mixed"
      /\ last' \in {"none", "connect", "disconnect", "kept", "mixed"}
  BY SettleEffect DEF RemoteInv, Connected
<1>2. current' = i /\ replaced' = replaced \cup ({current} \ {None})
  BY DEF Connected
<1>3. /\ i \in Conn \ replaced /\ i # current /\ conn[i].st = "open"
      /\ \A d \in Call \ {c} : Holds(d) => call[d].conn # i
  BY DEF RemoteInv, Holders
<1>4. i # None /\ i \in Nat
  BY <1>3, NoneAssumption, RemoteAssumption DEF Conn
<1> PICK q : q = conn[i].p
  OBVIOUS
<1>5. /\ q \in 0..MaxConn
      /\ record' = record \/ record' = [p |-> q, readable |-> TRUE]
  BY DEF RemoteInv, TypeOK
<1>6. /\ [p |-> q, readable |-> TRUE] \in [p : 0..MaxConn, readable : BOOLEAN]
      /\ [p |-> q, readable |-> TRUE] # None
  <2>1. q \in 0..MaxConn
    BY <1>5
  <2>2. [p |-> q, readable |-> TRUE] \in [p : 0..MaxConn, readable : BOOLEAN]
    BY <2>1, StoredType, Zenon
  <2> QED
    BY <2>2, NoneAssumption, Zenon
<1>7. TypeOK'
  <2>1. record \in Opt([p : 0..MaxConn, readable : BOOLEAN])
    BY DEF RemoteInv, TypeOK
  <2>2. record' \in Opt([p : 0..MaxConn, readable : BOOLEAN])
    BY <2>1, <1>5, <1>6, Zenon DEF Opt
  <2>3. replaced' \subseteq Conn
    BY <1>2 DEF RemoteInv, TypeOK, Opt
  <2> QED
    BY <1>1, <1>2, <1>3, <2>2, <2>3 DEF RemoteInv, TypeOK, Opt
<1>8. Holders'
  <2>1. ASSUME NEW d \in Call, Holds(d)'
        PROVE  d # c /\ call'[d] = call[d] /\ Holds(d)
    BY <1>1, <2>1 DEF Holds, Others
  <2>2. ASSUME NEW d \in Call, Holds(d)'
        PROVE  /\ (call[d].conn)' \in Conn \ replaced' /\ (call[d].conn)' # current'
               /\ (conn[call[d].conn].st)' = "open"
    BY <1>2, <1>3, <2>1, <2>2 DEF RemoteInv, Holders
  <2>3. ASSUME NEW d \in Call, NEW e \in Call, Holds(d)', Holds(e)', d # e
        PROVE  (call[d].conn)' # (call[e].conn)'
    BY <2>1, <2>3 DEF RemoteInv, Holders
  <2>4. current' \notin replaced' /\ (conn[current].st)' = "open"
    BY <1>2, <1>3
  <2>5. \A j \in replaced' : (conn[j].st)' # "none"
    BY <1>2 DEF RemoteInv, Holders
  <2> QED
    BY <2>2, <2>3, <2>4, <2>5 DEF Holders
<1>9. Held'
  <2> SUFFICES ASSUME NEW j \in Conn, conn[j].st = "open"
               PROVE  j = i \/ j \in replaced' \/ \E d \in Call : Holds(d)' /\ call'[d].conn = j
    BY <1>2 DEF Held
  <2>1. CASE j = current
    BY <1>2, <2>1, NoneAssumption, RemoteAssumption DEF Conn
  <2>2. CASE j \in replaced
    BY <1>2, <2>2
  <2>3. CASE \E d \in Call : Holds(d) /\ call[d].conn = j
    BY <1>1, <2>3 DEF Holds, Others
  <2> QED
    BY <2>1, <2>2, <2>3 DEF RemoteInv, Held
<1>10. AckedFirst'
  <2>1. OnlyAcknowledgedPairings'
    BY <1>2 DEF RemoteInv, AckedFirst, OnlyAcknowledgedPairings
  <2> QED
    BY <2>1, <1>1 DEF RemoteInv, AckedFirst, Others
<1>11. StoreUsed'
  BY <1>1 DEF RemoteInv, StoreUsed, Others
<1>12. Stages'
  BY <1>1 DEF RemoteInv, Stages, Others
<1>13. AloneIsAlone'
  BY <1>1 DEF RemoteInv, AloneIsAlone, Others, Holds
<1>14. Agreed'
  <2>1. call[c].alone /\ call[c].pc = "restore" => record # None /\ record.p = conn[i].p
    BY DEF RemoteInv, AloneIsAlone
  <2>2. record' = [p |-> q, readable |-> TRUE] => record' # None /\ record'.p = conn[i].p
    BY <1>6
  <2>3. call[c].alone /\ storing => record' # None /\ record'.p = conn[i].p
    BY <2>1, <2>2
  <2>4. Agreement'
    BY <1>1, <1>2, <2>3 DEF Agreement
  <2> QED
    BY <2>4 DEF Agreed
<1> QED
  BY <1>7, <1>8, <1>9, <1>10, <1>11, <1>12, <1>13, <1>14 DEF RemoteInv

-----------------------------------------------------------------------------
(* The steps of connect() and disconnect(). *)

\* connect() ends, or rejects, without a connection.
LEMMA Ending ==
    ASSUME RemoteInv, NEW c \in Call, Settle(c),
           UNCHANGED <<mode, storing, record, current, conn, req, acked, replaced, moves>>,
           ~Holds(c), call[c].pc # "idle", call[c].op = "connect", call[c].alone => current = None
    PROVE  RemoteInv'
<1>1. call[c].alone => Agreement'
  BY SettleEffect DEF RemoteInv, Agreement
<1> QED
  BY <1>1, SettleEffect, Settling DEF RemoteInv

\* Where connect() turns once nothing stored can be reused
LEMMA Pairing ==
    ASSUME RemoteInv, NEW c \in Call, Pair(c),
           UNCHANGED <<mode, storing, current, req, acked, replaced, moves>>,
           ~Holds(c), call[c].pc # "idle", call[c].op = "connect", call[c].alone => current = None,
           record' = record \/ record' = None
    PROVE  RemoteInv'
<1>1. CASE mode = "token" /\ Go(c, "parse") /\ UNCHANGED <<conn, last>>
  <2>1. call'[c].pc = "parse"
    BY <1>1, GoEffect DEF RemoteInv, TypeOK, Pc
  <2>2. "parse" \in Pc /\ (Holds(c) <=> Holds(c)')
    BY <2>1 DEF Pc, Holds
  <2> QED
    BY <1>1, <2>2, Going
<1>2. CASE Open(c, "wait", None) /\ UNCHANGED last
  <2>1. None \in Opt(0..MaxConn)
    BY DEF Opt
  <2> QED
    BY <1>2, <2>1, Opening
<1>3. CASE mode = "store" /\ Settle(c) /\ UNCHANGED conn
  <2>1. call[c].alone => Agreement'
    BY <1>3, SettleEffect DEF RemoteInv, Agreement
  <2> QED
    BY <1>3, <2>1, SettleEffect, Settling DEF RemoteInv
<1> QED
  BY <1>1, <1>2, <1>3 DEF Pair

\* connect() begins: a connection already there is the end of it.
LEMMA ConnectStartStep ==
    ASSUME RemoteInv, NEW c \in Call, ConnectStart(c)
    PROVE  RemoteInv'
<1> USE DEF ConnectStart
<1>1. ~Holds(c)
  BY DEF Holds
<1>2. CASE current # None /\ call' = [call EXCEPT ![c] = Idle] /\ UNCHANGED <<conn, last>>
  <2>1. Idle \in CallRecord /\ Idle.pc = "idle"
    BY DEF Idle, CallRecord, Opt, Pc
  <2>2. call' \in [Call -> CallRecord] /\ Others(c) /\ call'[c].pc = "idle"
    BY <1>2, <2>1 DEF RemoteInv, TypeOK, Others
  <2>3. TypeOK'
    BY <1>2, <2>2 DEF RemoteInv, TypeOK
  <2>4. Holders'
    BY <1>2, <2>2 DEF RemoteInv, Holders, Holds, Others
  <2>5. Held'
    BY <1>2, <2>2 DEF RemoteInv, Held, Holds, Others
  <2>6. AckedFirst' /\ StoreUsed' /\ Stages'
    BY <1>2, <2>2 DEF RemoteInv, AckedFirst, OnlyAcknowledgedPairings, StoreUsed, Stages, Others
  <2>7. AloneIsAlone'
    BY <1>2, <2>2 DEF RemoteInv, AloneIsAlone, Others
  <2>8. Agreed'
    <3>1. Agreement => Agreement'
      BY <1>2 DEF Agreement
    <3> QED
      BY <1>2, <2>2, <3>1 DEF RemoteInv, Agreed, Others
  <2> QED
    BY <2>3, <2>4, <2>5, <2>6, <2>7, <2>8 DEF RemoteInv
<1>3. CASE current = None /\ storing /\ Go(c, "load") /\ UNCHANGED <<conn, last>>
  <2>1. call'[c].pc = "load"
    BY <1>3, GoEffect DEF RemoteInv, TypeOK, Pc
  <2>2. "load" \in Pc /\ (Holds(c) <=> Holds(c)')
    BY <1>1, <2>1 DEF Pc, Holds
  <2> QED
    BY <1>3, <2>2, Going
<1>4. CASE current = None /\ ~storing /\ Pair(c)
  BY <1>1, <1>4, Pairing
<1> QED
  BY <1>2, <1>3, <1>4

\* What was stored is tried first.
LEMMA LoadStep ==
    ASSUME RemoteInv, NEW c \in Call, Load(c)
    PROVE  RemoteInv'
<1> USE DEF Load
<1>1. ~Holds(c) /\ call[c].op = "connect" /\ (call[c].alone => current = None)
  BY DEF Holds, RemoteInv, Stages, AloneIsAlone
<1>2. CASE Loadable /\ Open(c, "restore", record.p) /\ UNCHANGED last
  <2>1. record # None /\ record.p \in 0..MaxConn
    BY <1>2 DEF RemoteInv, TypeOK, Opt, Loadable
  <2>2. record.p \in Opt(0..MaxConn) /\ record.p # None
    BY <2>1, NoneAssumption DEF Opt
  <2> QED
    BY <1>1, <1>2, <2>1, <2>2, Opening
<1>3. CASE ~Loadable /\ Pair(c)
  BY <1>1, <1>3, Pairing
<1>4. CASE Settle(c) /\ UNCHANGED conn
  BY <1>1, <1>4, Ending
<1> QED
  BY <1>2, <1>3, <1>4

\* A token that does not parse ends the call, one that does opens a connection.
LEMMA ParseStep ==
    ASSUME RemoteInv, NEW c \in Call, Parse(c)
    PROVE  RemoteInv'
<1> USE DEF Parse
<1>1. ~Holds(c) /\ call[c].op = "connect" /\ (call[c].alone => current = None)
  BY DEF Holds, RemoteInv, Stages, AloneIsAlone
<1>2. CASE Open(c, "pair", None) /\ UNCHANGED last
  BY <1>1, <1>2, Opening DEF Opt
<1>3. CASE Settle(c) /\ UNCHANGED conn
  BY <1>1, <1>3, Ending
<1> QED
  BY <1>2, <1>3

\* A restored pairing is answered.
LEMMA RestoredStep ==
    ASSUME RemoteInv, NEW c \in Call, Restored(c)
    PROVE  RemoteInv'
  BY Connecting DEF Restored, Acknowledged, Holds, RemoteInv, Stages

\* A new pairing is answered.
LEMMA PairedStep ==
    ASSUME RemoteInv, NEW c \in Call, Paired(c)
    PROVE  RemoteInv'
<1> USE DEF Paired, Acknowledged
<1>1. Holds(c) /\ call[c].op = "connect" /\ (call[c].alone => current = None)
  BY DEF Holds, RemoteInv, Stages, AloneIsAlone
<1>2. CASE storing
  <2>1. call'[c].pc = "save"
    BY <1>2, GoEffect DEF RemoteInv, TypeOK, Pc
  <2>2. "save" \in Pc /\ (Holds(c) <=> Holds(c)')
    BY <1>1, <2>1 DEF Pc, Holds
  <2> QED
    BY <1>1, <1>2, <2>2, Going
<1>3. CASE ~storing
  BY <1>1, <1>3, Connecting
<1> QED
  BY <1>2, <1>3

\* A handshake fails; its connection has still to be closed.
LEMMA UnpairedStep ==
    ASSUME RemoteInv, NEW c \in Call, Unpaired(c)
    PROVE  RemoteInv'
<1> USE DEF Unpaired
<1>1. Holds(c) /\ call[c].op = "connect" /\ (call[c].alone => current = None)
  BY DEF Holds, RemoteInv, Stages, AloneIsAlone
<1> PICK pc : pc = IF call[c].pc = "restore" THEN "unrestore" ELSE "unpair"
  OBVIOUS
<1>2. pc \in Pc /\ pc \in {"unrestore", "unpair"} /\ Go(c, pc)
  BY DEF Pc
<1>3. Holds(c) <=> Holds(c)'
  BY <1>1, <1>2, GoEffect DEF RemoteInv, TypeOK, Holds
<1> QED
  BY <1>1, <1>2, <1>3, Going

\* The pairing is stored, or a failure to store it tears it down.
LEMMA SaveStep ==
    ASSUME RemoteInv, NEW c \in Call, Save(c)
    PROVE  RemoteInv'
<1> USE DEF Save
<1>1. Holds(c) /\ call[c].op = "connect" /\ (call[c].alone => current = None)
  BY DEF Holds, RemoteInv, Stages, AloneIsAlone
<1>2. storing /\ conn[call[c].conn].p \in acked
  BY DEF RemoteInv, AckedFirst, StoreUsed
<1>3. CASE /\ record' = [p |-> conn[call[c].conn].p, readable |-> TRUE]
           /\ Connected(c)
  BY <1>1, <1>2, <1>3, Connecting
<1>4. CASE Go(c, "unsave") /\ UNCHANGED <<record, current, replaced, last>>
  <2>1. call'[c].pc = "unsave"
    BY <1>4, GoEffect DEF RemoteInv, TypeOK, Pc
  <2>2. "unsave" \in Pc /\ (Holds(c) <=> Holds(c)')
    BY <1>1, <2>1 DEF Pc, Holds
  <2> QED
    BY <1>1, <1>4, <2>2, Going
<1> QED
  BY <1>3, <1>4

\* A stored pairing that no longer works is dropped.
LEMMA ForgetStep ==
    ASSUME RemoteInv, NEW c \in Call, Forget(c)
    PROVE  RemoteInv'
<1>1. ~Holds(c) /\ call[c].op = "connect" /\ (call[c].alone => current = None)
  BY DEF Forget, Holds, RemoteInv, Stages, AloneIsAlone
<1>2. CASE record' = None /\ Pair(c)
  BY <1>1, <1>2, Pairing DEF Forget
<1>3. CASE Settle(c) /\ UNCHANGED <<record, conn>>
  BY <1>1, <1>3, Ending DEF Forget
<1> QED
  BY <1>2, <1>3 DEF Forget

\* A call's connection is closed, after a failure.
LEMMA ClosedStep ==
    ASSUME RemoteInv, NEW c \in Call, Closed(c)
    PROVE  RemoteInv'
<1> PICK i : i = call[c].conn
  OBVIOUS
<1> USE DEF Closed
<1>1. /\ Holds(c) /\ call[c].op = "connect" /\ (call[c].alone => current = None)
      /\ i \in Conn \ replaced /\ i # current /\ conn[i].st = "open"
      /\ \A d \in Call \ {c} : Holds(d) => call[d].conn # i
  BY DEF Holds, RemoteInv, Stages, AloneIsAlone, Holders
<1>2. PICK pc \in {"forget", "idle"} :
         /\ call' \in [Call -> CallRecord] /\ Others(c) /\ call'[c].pc = pc
         /\ pc = "forget" => UNCHANGED last /\ call'[c].op = "connect" /\ call'[c].alone = call[c].alone
         /\ pc = "idle" => last' = IF call[c].alone THEN call[c].op ELSE "mixed"
         /\ last' \in {"none", "connect", "disconnect", "kept", "mixed"}
  <2>1. CASE Go(c, "forget") /\ UNCHANGED last
    BY <1>1, <2>1, GoEffect DEF RemoteInv, TypeOK, Pc
  <2>2. CASE Settle(c)
    BY <2>2, SettleEffect DEF RemoteInv
  <2> QED
    BY <2>1, <2>2
<1>3. conn[i] \in [st : {"none", "open", "closed"}, p : Opt(0..MaxConn), zero : BOOLEAN]
  BY <1>1 DEF RemoteInv, TypeOK
<1>4. /\ conn' \in [Conn -> [st : {"none", "open", "closed"}, p : Opt(0..MaxConn), zero : BOOLEAN]]
      /\ conn'[i].st = "closed" /\ conn'[i].p = conn[i].p /\ conn'[i].zero = conn[i].zero
      /\ \A j \in Conn : j # i => conn'[j] = conn[j]
  BY <1>1, <1>3 DEF Close, RemoteInv, TypeOK
<1>5. current # None => current \in Conn /\ conn'[current] = conn[current]
  BY <1>1, <1>4 DEF RemoteInv, TypeOK, Opt
<1>6. \A d \in Call : Holds(d)' => d # c /\ call'[d] = call[d] /\ Holds(d)
  BY <1>2 DEF Holds, Others
<1>7. TypeOK'
  BY <1>1, <1>2, <1>4 DEF RemoteInv, TypeOK, Opt
<1>8. Holders'
  <2>1. ASSUME NEW d \in Call, Holds(d)'
        PROVE  /\ (call[d].conn)' \in Conn \ replaced' /\ (call[d].conn)' # current'
               /\ (conn[call[d].conn].st)' = "open"
    BY <1>1, <1>4, <1>6, <2>1 DEF RemoteInv, Holders
  <2>2. ASSUME NEW d \in Call, NEW e \in Call, Holds(d)', Holds(e)', d # e
        PROVE  (call[d].conn)' # (call[e].conn)'
    BY <1>6, <2>2 DEF RemoteInv, Holders
  <2>3. current' # None => current' \notin replaced' /\ (conn[current].st)' = "open"
    BY <1>5 DEF RemoteInv, Holders
  <2>4. \A j \in replaced' : (conn[j].st)' # "none"
    BY <1>1, <1>4 DEF RemoteInv, Holders, TypeOK
  <2> QED
    BY <2>1, <2>2, <2>3, <2>4 DEF Holders
<1>9. Held'
  <2> SUFFICES ASSUME NEW j \in Conn, (conn[j].st)' = "open", j # current, j \notin replaced
               PROVE  \E d \in Call : Holds(d)' /\ call'[d].conn = j
    BY DEF Held
  <2>1. j # i /\ conn[j].st = "open"
    BY <1>4
  <2>2. PICK d \in Call : Holds(d) /\ call[d].conn = j
    BY <2>1 DEF RemoteInv, Held
  <2>3. call'[d] = call[d] /\ Holds(d)'
    BY <1>2, <2>1, <2>2 DEF Others, Holds
  <2> QED
    BY <2>2, <2>3
<1>10. AckedFirst'
  <2>1. OnlyAcknowledgedPairings'
    BY <1>5 DEF RemoteInv, AckedFirst, OnlyAcknowledgedPairings
  <2>2. ASSUME NEW d \in Call, call'[d].pc = "save"
        PROVE  conn'[call'[d].conn].p \in acked
    <3>1. call'[d] = call[d] /\ Holds(d) /\ d # c
      BY <1>2, <2>2 DEF Others, Holds
    <3> QED
      BY <1>1, <1>4, <2>2, <3>1 DEF RemoteInv, AckedFirst, Holders
  <2> QED
    BY <2>1, <2>2 DEF AckedFirst
<1>11. StoreUsed' /\ Stages'
  BY <1>2 DEF RemoteInv, StoreUsed, Stages, Others
<1>12. AloneIsAlone'
  BY <1>1, <1>2 DEF RemoteInv, AloneIsAlone, Others, Holds
<1>13. Agreed'
  <2>1. CASE pc = "forget"
    BY <1>2, <2>1 DEF Agreed
  <2>2. CASE pc = "idle"
    BY <1>1, <1>2, <2>2 DEF Agreed, Agreement
  <2> QED
    BY <2>1, <2>2
<1> QED
  BY <1>7, <1>8, <1>9, <1>10, <1>11, <1>12, <1>13 DEF RemoteInv

\* disconnect() takes the connection from the signer.
LEMMA DisconnectStartStep ==
    ASSUME RemoteInv, NEW c \in Call, DisconnectStart(c)
    PROVE  RemoteInv'
<1> USE DEF DisconnectStart
<1> PICK pc : pc = IF current = None THEN "clear" ELSE "close"
  OBVIOUS
<1>1. call[c] \in CallRecord /\ pc \in Pc /\ current \in Opt(Conn)
  BY DEF RemoteInv, TypeOK, Pc
<1>2. [call[c] EXCEPT !.pc = pc, !.conn = current] \in CallRecord
  BY <1>1 DEF CallRecord
<1>3. /\ call' \in [Call -> CallRecord] /\ Others(c)
      /\ call'[c].pc = pc /\ call'[c].conn = current /\ call'[c].op = "disconnect"
      /\ call'[c].alone = call[c].alone
  <2>1. call' = [call EXCEPT ![c] = [call[c] EXCEPT !.pc = pc, !.conn = current]]
    OBVIOUS
  <2>2. /\ call' \in [Call -> CallRecord] /\ Others(c)
        /\ call'[c] = [call[c] EXCEPT !.pc = pc, !.conn = current]
    BY <1>2, <2>1 DEF RemoteInv, TypeOK, Others
  <2> QED
    BY <1>1, <2>2 DEF CallRecord
<1>4. Holds(c)' <=> current # None
  BY <1>3 DEF Holds
<1>5. \A d \in Call \ {c} : call'[d] = call[d] /\ (Holds(d)' <=> Holds(d))
  BY <1>3 DEF Holds, Others
<1>6. TypeOK'
  BY <1>3 DEF RemoteInv, TypeOK, Opt
<1>7. Holders'
  <2>1. ASSUME NEW d \in Call, Holds(d)'
        PROVE  /\ (call[d].conn)' \in Conn \ replaced' /\ (call[d].conn)' # current'
               /\ (conn[call[d].conn].st)' = "open"
    <3>1. None \notin Conn
      BY NoneAssumption, RemoteAssumption DEF Conn
    <3>2. CASE d = c
      BY <1>1, <1>3, <1>4, <2>1, <3>1, <3>2 DEF RemoteInv, Holders, Opt
    <3>3. CASE d # c
      BY <1>5, <2>1, <3>1, <3>3 DEF RemoteInv, Holders
    <3> QED
      BY <3>2, <3>3
  <2>2. ASSUME NEW d \in Call, NEW e \in Call, Holds(d)', Holds(e)', d # e
        PROVE  (call[d].conn)' # (call[e].conn)'
    BY <1>3, <1>5, <2>2 DEF RemoteInv, Holders
  <2> QED
    BY <2>1, <2>2 DEF RemoteInv, Holders
<1>8. Held'
  <2> SUFFICES ASSUME NEW j \in Conn, conn[j].st = "open", j \notin replaced
               PROVE  \E d \in Call : Holds(d)' /\ call'[d].conn = j
    BY DEF Held
  <2>1. CASE j = current
    BY <1>3, <1>4, <2>1, NoneAssumption, RemoteAssumption DEF Conn
  <2>2. CASE j # current
    <3>1. PICK d \in Call : Holds(d) /\ call[d].conn = j
      BY <2>2 DEF RemoteInv, Held
    <3>2. d # c
      BY <3>1 DEF Holds
    <3> QED
      BY <1>5, <3>1, <3>2
  <2> QED
    BY <2>1, <2>2
<1>9. AckedFirst'
  BY <1>3 DEF RemoteInv, AckedFirst, OnlyAcknowledgedPairings, Others
<1>10. StoreUsed' /\ Stages'
  BY <1>3 DEF RemoteInv, StoreUsed, Stages, Others
<1>11. AloneIsAlone'
  BY <1>3 DEF RemoteInv, AloneIsAlone, Others
<1>12. Agreed'
  BY <1>3 DEF Agreed
<1> QED
  BY <1>6, <1>7, <1>8, <1>9, <1>10, <1>11, <1>12 DEF RemoteInv

\* disconnect() closes the connection it took and zeroes its key.
LEMMA DisconnectCloseStep ==
    ASSUME RemoteInv, NEW c \in Call, DisconnectClose(c)
    PROVE  RemoteInv'
<1> PICK i : i = call[c].conn
  OBVIOUS
<1> USE DEF DisconnectClose
<1>1. /\ Holds(c) /\ call[c].op = "disconnect" /\ (call[c].alone => current = None)
      /\ i \in Conn \ replaced /\ i # current /\ conn[i].st = "open"
      /\ \A d \in Call \ {c} : Holds(d) => call[d].conn # i
  BY DEF Holds, RemoteInv, Stages, AloneIsAlone, Holders
<1>2. /\ call' \in [Call -> CallRecord] /\ Others(c) /\ call'[c].pc = "clear"
      /\ call'[c].op = call[c].op /\ call'[c].alone = call[c].alone
  BY GoEffect DEF RemoteInv, TypeOK, Pc
<1>3. conn[i] \in [st : {"none", "open", "closed"}, p : Opt(0..MaxConn), zero : BOOLEAN]
  BY <1>1 DEF RemoteInv, TypeOK
<1>4. [conn[i] EXCEPT !.st = "closed", !.zero = TRUE]
        \in [st : {"none", "open", "closed"}, p : Opt(0..MaxConn), zero : BOOLEAN]
  BY <1>3
<1>5. /\ conn' \in [Conn -> [st : {"none", "open", "closed"}, p : Opt(0..MaxConn), zero : BOOLEAN]]
      /\ conn'[i] = [conn[i] EXCEPT !.st = "closed", !.zero = TRUE]
      /\ \A j \in Conn : j # i => conn'[j] = conn[j]
  <2> PICK n : n = [conn[i] EXCEPT !.st = "closed", !.zero = TRUE]
    OBVIOUS
  <2>1. conn' = [conn EXCEPT ![i] = n]
    BY DEF DisconnectClose
  <2>2. /\ i \in Conn /\ n \in [st : {"none", "open", "closed"}, p : Opt(0..MaxConn), zero : BOOLEAN]
        /\ conn \in [Conn -> [st : {"none", "open", "closed"}, p : Opt(0..MaxConn), zero : BOOLEAN]]
    BY <1>1, <1>4 DEF RemoteInv, TypeOK
  <2> HIDE DEF DisconnectClose
  <2> QED
    BY <2>1, <2>2
<1>6. conn'[i].st = "closed" /\ conn'[i].p = conn[i].p
  BY <1>3, <1>5
<1>7. current # None => current \in Conn /\ conn'[current] = conn[current]
  BY <1>1, <1>5 DEF RemoteInv, TypeOK, Opt
<1>8. \A d \in Call : Holds(d)' => d # c /\ call'[d] = call[d] /\ Holds(d)
  BY <1>2 DEF Holds, Others
<1>9. TypeOK'
  BY <1>1, <1>2, <1>5, <1>6 DEF RemoteInv, TypeOK, Opt
<1>10. Holders'
  <2>1. ASSUME NEW d \in Call, Holds(d)'
        PROVE  /\ (call[d].conn)' \in Conn \ replaced' /\ (call[d].conn)' # current'
               /\ (conn[call[d].conn].st)' = "open"
    BY <1>1, <1>5, <1>8, <2>1 DEF RemoteInv, Holders
  <2>2. ASSUME NEW d \in Call, NEW e \in Call, Holds(d)', Holds(e)', d # e
        PROVE  (call[d].conn)' # (call[e].conn)'
    BY <1>8, <2>2 DEF RemoteInv, Holders
  <2>3. current' # None => current' \notin replaced' /\ (conn[current].st)' = "open"
    BY <1>7 DEF RemoteInv, Holders
  <2>4. \A j \in replaced' : (conn[j].st)' # "none"
    BY <1>1, <1>5 DEF RemoteInv, Holders, TypeOK
  <2> QED
    BY <2>1, <2>2, <2>3, <2>4 DEF Holders
<1>11. Held'
  <2> SUFFICES ASSUME NEW j \in Conn, (conn[j].st)' = "open", j # current, j \notin replaced
               PROVE  \E d \in Call : Holds(d)' /\ call'[d].conn = j
    BY DEF Held
  <2>1. j # i /\ conn[j].st = "open"
    BY <1>5, <1>6
  <2>2. PICK d \in Call : Holds(d) /\ call[d].conn = j
    BY <2>1 DEF RemoteInv, Held
  <2>3. call'[d] = call[d] /\ Holds(d)'
    BY <1>2, <2>1, <2>2 DEF Others, Holds
  <2> QED
    BY <2>2, <2>3
<1>12. AckedFirst'
  <2>1. OnlyAcknowledgedPairings'
    BY <1>7 DEF RemoteInv, AckedFirst, OnlyAcknowledgedPairings
  <2>2. ASSUME NEW d \in Call, call'[d].pc = "save"
        PROVE  conn'[call'[d].conn].p \in acked
    <3>1. call'[d] = call[d] /\ Holds(d) /\ d # c
      BY <1>2, <2>2 DEF Others, Holds
    <3> QED
      BY <1>1, <1>5, <2>2, <3>1 DEF RemoteInv, AckedFirst, Holders
  <2> QED
    BY <2>1, <2>2 DEF AckedFirst
<1>13. StoreUsed' /\ Stages'
  BY <1>2 DEF RemoteInv, StoreUsed, Stages, Others
<1>14. AloneIsAlone'
  BY <1>1, <1>2 DEF RemoteInv, AloneIsAlone, Others, Holds
<1>15. Agreed'
  BY <1>2 DEF Agreed
<1> QED
  BY <1>9, <1>10, <1>11, <1>12, <1>13, <1>14, <1>15 DEF RemoteInv

\* disconnect() clears the store, or fails to, and is done; a connection still open then is
\* one that lost its place to another.
LEMMA DisconnectClearStep ==
    ASSUME RemoteInv, NEW c \in Call, DisconnectClear(c)
    PROVE  RemoteInv'
<1> USE DEF DisconnectClear
<1>1. ~Holds(c) /\ call[c].op = "disconnect"
  BY DEF Holds, RemoteInv, Stages
<1>2. ASSUME call[c].alone
      PROVE  current = None /\ \A i \in Conn \ replaced : conn[i].st # "open"
  <2>1. current = None /\ \A d \in Call \ {c} : call[d].pc = "idle"
    BY <1>2 DEF RemoteInv, AloneIsAlone
  <2>2. \A d \in Call : ~Holds(d)
    BY <1>1, <2>1 DEF Holds
  <2> QED
    BY <2>1, <2>2, NoneAssumption, RemoteAssumption DEF RemoteInv, Held, Conn
<1>3. CASE record' = (IF storing THEN None ELSE record) /\ Settle(c)
  <2>1. record' = None
    BY <1>3 DEF RemoteInv, StoreUsed
  <2>2. call[c].alone => last' = "disconnect"
    BY <1>1, <1>3, SettleEffect DEF RemoteInv
  <2>3. call[c].alone => Agreement'
    BY <1>2, <2>1, <2>2 DEF Agreement
  <2> QED
    BY <1>1, <1>3, <2>1, <2>3, SettleEffect, Settling DEF RemoteInv
<1>4. CASE SettleAs(c, "kept") /\ UNCHANGED record
  <2>1. "kept" \in Noted
    BY DEF Noted
  <2>2. call[c].alone => last' = "kept"
    BY <1>4, <2>1, SettleAsEffect DEF RemoteInv
  <2>3. call[c].alone => Agreement'
    BY <1>2, <2>2 DEF Agreement
  <2> QED
    BY <1>1, <1>4, <2>1, <2>3, Settling
<1> QED
  BY <1>3, <1>4

-----------------------------------------------------------------------------
(* What happens around the calls. *)

\* The bunker acknowledges a pairing.
LEMMA BunkerAckStep ==
    ASSUME RemoteInv, NEW c \in Call, BunkerAck(c)
    PROVE  RemoteInv'
<1> USE DEF BunkerAck
<1>1. Holds(c) /\ call[c].conn \in Conn /\ conn[call[c].conn].st = "open"
  BY DEF Holds, RemoteInv, Holders
<1>2. conn[call[c].conn].p \in 0..MaxConn
  BY <1>1 DEF RemoteInv, TypeOK, Opt
<1>3. TypeOK'
  BY <1>2 DEF RemoteInv, TypeOK
<1>4. Holders' /\ Held'
  BY DEF RemoteInv, Holders, Held, Holds
<1>5. AckedFirst'
  BY DEF RemoteInv, AckedFirst, OnlyAcknowledgedPairings
<1>6. StoreUsed' /\ Stages' /\ AloneIsAlone'
  BY DEF RemoteInv, StoreUsed, Stages, AloneIsAlone
<1>7. Agreed'
  BY DEF RemoteInv, Agreed, Agreement
<1> QED
  BY <1>3, <1>4, <1>5, <1>6, <1>7 DEF RemoteInv

\* Somebody declines, or echoes a wrong secret.
LEMMA NoiseStep ==
    ASSUME RemoteInv, NEW c \in Call, Noise(c)
    PROVE  RemoteInv'
<1> USE DEF Noise
<1>1. PICK hint \in {"declined", "wrong"} : call' = [call EXCEPT ![c] = [call[c] EXCEPT !.hint = hint]]
  OBVIOUS
<1>2. call[c] \in CallRecord
  BY DEF RemoteInv, TypeOK
<1>3. [call[c] EXCEPT !.hint = hint] \in CallRecord
  BY <1>2 DEF CallRecord
<1>4. /\ call' \in [Call -> CallRecord] /\ Others(c)
      /\ call'[c] = [call[c] EXCEPT !.hint = hint]
  BY <1>1, <1>3 DEF RemoteInv, TypeOK, Others
<1>5. \A d \in Call : /\ call'[d].pc = call[d].pc /\ call'[d].conn = call[d].conn
                      /\ call'[d].op = call[d].op /\ call'[d].alone = call[d].alone
  BY <1>2, <1>4 DEF CallRecord, Others
<1>6. \A d \in Call : Holds(d)' <=> Holds(d)
  BY <1>5 DEF Holds
<1>7. TypeOK'
  BY <1>4 DEF RemoteInv, TypeOK
<1>8. Holders' /\ Held'
  BY <1>5, <1>6 DEF RemoteInv, Holders, Held
<1>9. AckedFirst' /\ StoreUsed' /\ Stages' /\ AloneIsAlone'
  BY <1>5 DEF RemoteInv, AckedFirst, OnlyAcknowledgedPairings, StoreUsed, Stages, AloneIsAlone
<1>10. Agreed'
  BY <1>5 DEF RemoteInv, Agreed, Agreement
<1> QED
  BY <1>7, <1>8, <1>9, <1>10 DEF RemoteInv

\* A call begins, and no call under way is alone any more.
LEMMA StartStep ==
    ASSUME RemoteInv, NEW c \in Call, NEW op \in {"connect", "disconnect"}, Start(c, op)
    PROVE  RemoteInv'
<1>1. /\ call[c].pc = "idle" /\ moves' \in 0..MaxMoves
      /\ UNCHANGED <<mode, storing, record, current, conn, req, acked, replaced, last>>
  <2>1. call[c].pc = "idle" /\ moves < MaxMoves /\ moves' = moves + 1
    BY DEF Start, Move
  <2>2. moves' \in 0..MaxMoves
    BY <2>1, RemoteAssumption DEF RemoteInv, TypeOK
  <2> QED
    BY <2>1, <2>2 DEF Start
<1> PICK a \in BOOLEAN : a = (InFlight = {})
  OBVIOUS
<1> PICK b \in [Call -> BOOLEAN] : \A d \in Call : b[d] <=> call[d].pc = "idle"
  <2>1. [d \in Call |-> call[d].pc = "idle"] \in [Call -> BOOLEAN]
    OBVIOUS
  <2> QED
    BY <2>1
<1>2. call' = [d \in Call |->
                 IF d = c THEN [Idle EXCEPT !.pc = "start", !.op = op, !.alone = a]
                 ELSE [call[d] EXCEPT !.alone = b[d]]]
  BY DEF Start
<1>3. call \in [Call -> CallRecord] /\ [Idle EXCEPT !.pc = "start", !.op = op, !.alone = a] \in CallRecord
  BY DEF Idle, CallRecord, Pc, Opt, RemoteInv, TypeOK
<1>4. call' \in [Call -> CallRecord]
  <2>1. \A d \in Call : [call[d] EXCEPT !.alone = b[d]] \in CallRecord
    BY <1>3 DEF CallRecord
  <2> QED
    BY <1>2, <1>3, <2>1
<1>5. call'[c].pc = "start" /\ call'[c].alone = a
  BY <1>2 DEF Idle
<1>6. \A d \in Call \ {c} : /\ call'[d].pc = call[d].pc /\ call'[d].conn = call[d].conn
                            /\ call'[d].op = call[d].op /\ call'[d].alone = b[d]
  BY <1>2, <1>3 DEF CallRecord
<1>7. \A d \in Call : Holds(d)' => d # c /\ call'[d].conn = call[d].conn /\ Holds(d)
  BY <1>5, <1>6 DEF Holds
<1>8. TypeOK'
  BY <1>1, <1>4, RemoteAssumption DEF RemoteInv, TypeOK
<1>9. Holders'
  BY <1>1, <1>7 DEF RemoteInv, Holders
<1>10. Held'
  BY <1>1, <1>6, <1>7 DEF RemoteInv, Held, Holds
<1>11. AckedFirst' /\ StoreUsed' /\ Stages'
  BY <1>1, <1>5, <1>6 DEF RemoteInv, AckedFirst, OnlyAcknowledgedPairings, StoreUsed, Stages
<1>12. AloneIsAlone'
  BY <1>1, <1>5, <1>6 DEF RemoteInv, AloneIsAlone, InFlight
<1>13. Agreed'
  <2>1. Agreement => Agreement'
    BY <1>1 DEF Agreement
  <2> QED
    BY <1>1, <1>6, <2>1 DEF RemoteInv, Agreed
<1> QED
  BY <1>8, <1>9, <1>10, <1>11, <1>12, <1>13 DEF RemoteInv

\* A request is asked, answered or given up: only the requests change.
LEMMA RequestStep ==
    ASSUME RemoteInv,
           req' \in [Req -> Opt(Conn)], moves' \in 0..MaxMoves,
           UNCHANGED <<mode, storing, record, current, conn, call, acked, replaced, last>>
    PROVE  RemoteInv'
<1>1. TypeOK'
  BY DEF RemoteInv, TypeOK
<1>2. Holders' /\ Held'
  BY DEF RemoteInv, Holders, Held, Holds
<1>3. AckedFirst' /\ StoreUsed' /\ Stages' /\ AloneIsAlone'
  BY DEF RemoteInv, AckedFirst, OnlyAcknowledgedPairings, StoreUsed, Stages, AloneIsAlone
<1>4. Agreed'
  BY DEF RemoteInv, Agreed, Agreement
<1> QED
  BY <1>1, <1>2, <1>3, <1>4 DEF RemoteInv

-----------------------------------------------------------------------------
(* The inductive invariant, and what follows. *)

\* RemoteInv holds in every reachable state of the signer: whatever calls overlap, and
\* whichever of their awaits fail.
THEOREM RemoteInductive == Spec => []RemoteInv
<1>1. Init => RemoteInv
  <2> SUFFICES ASSUME Init
               PROVE  RemoteInv
    OBVIOUS
  <2>1. Idle \in CallRecord /\ Idle.pc = "idle"
    BY DEF Idle, CallRecord, Pc, Opt
  <2>2. NoConn \in [st : {"none", "open", "closed"}, p : Opt(0..MaxConn), zero : BOOLEAN]
    BY DEF NoConn, Opt
  <2>3. /\ [p |-> 0, readable |-> TRUE] \in [p : 0..MaxConn, readable : BOOLEAN]
        /\ [p |-> 0, readable |-> FALSE] \in [p : 0..MaxConn, readable : BOOLEAN]
        /\ record \in {None, [p |-> 0, readable |-> TRUE], [p |-> 0, readable |-> FALSE]}
        /\ record \in Opt([p : 0..MaxConn, readable : BOOLEAN])
    <3>1. 0 \in 0..MaxConn
      BY RemoteAssumption
    <3>2. /\ [p |-> 0, readable |-> TRUE] \in [p : 0..MaxConn, readable : BOOLEAN]
          /\ [p |-> 0, readable |-> FALSE] \in [p : 0..MaxConn, readable : BOOLEAN]
      BY <3>1
    <3>3. record \in {None, [p |-> 0, readable |-> TRUE], [p |-> 0, readable |-> FALSE]}
      BY DEF Init
    <3> QED
      BY <3>2, <3>3, Zenon DEF Opt
  <2>4. TypeOK
    BY <2>1, <2>2, <2>3, RemoteAssumption DEF Init, TypeOK, Opt, NoConn
  <2>5. Holders /\ Held
    BY <2>1 DEF Init, Holders, Held, Holds, NoConn
  <2>6. AckedFirst
    BY <2>1, <2>3 DEF Init, AckedFirst, OnlyAcknowledgedPairings
  <2>7. StoreUsed /\ Stages /\ AloneIsAlone
    BY <2>1 DEF Init, StoreUsed, Stages, AloneIsAlone
  <2>8. Agreed
    BY DEF Init, Agreed, Agreement
  <2> QED
    BY <2>4, <2>5, <2>6, <2>7, <2>8 DEF RemoteInv
<1>2. RemoteInv /\ [Next]_vars => RemoteInv'
  <2> SUFFICES ASSUME RemoteInv, [Next]_vars
               PROVE  RemoteInv'
    OBVIOUS
  <2>1. ASSUME NEW c \in Call, Step(c)
        PROVE  RemoteInv'
    BY <2>1, ConnectStartStep, LoadStep, ParseStep, RestoredStep, PairedStep, UnpairedStep,
       ClosedStep, ForgetStep, SaveStep, DisconnectStartStep, DisconnectCloseStep,
       DisconnectClearStep DEF Step
  <2>2. ASSUME NEW c \in Call, BunkerAck(c) \/ Noise(c)
        PROVE  RemoteInv'
    BY <2>2, BunkerAckStep, NoiseStep
  <2>3. ASSUME NEW c \in Call, NEW op \in {"connect", "disconnect"}, Start(c, op)
        PROVE  RemoteInv'
    BY <2>3, StartStep
  <2>4. ASSUME NEW r \in Req, Ask(r)
        PROVE  RemoteInv'
    <3>1. req' \in [Req -> Opt(Conn)] /\ moves' \in 0..MaxMoves
      BY <2>4, RemoteAssumption DEF Ask, Move, RemoteInv, TypeOK
    <3> QED
      BY <2>4, <3>1, RequestStep DEF Ask
  <2>5. ASSUME NEW r \in Req, Answered(r) \/ WithTimeout(r)
        PROVE  RemoteInv'
    <3>1. req' \in [Req -> Opt(Conn)] /\ moves' \in 0..MaxMoves
      BY <2>5 DEF Answered, WithTimeout, RemoteInv, TypeOK, Opt
    <3> QED
      BY <2>5, <3>1, RequestStep DEF Answered, WithTimeout
  <2>6. CASE UNCHANGED vars
    BY <2>6, RequestStep DEF vars, RemoteInv, TypeOK
  <2> QED
    BY <2>1, <2>2, <2>3, <2>4, <2>5, <2>6 DEF Next
<1> QED
  BY <1>1, <1>2, PTL DEF Spec

\* Calls, connections and the stored pairing have their types: an opened connection has its
\* pairing, and a client key is wiped (connection.ts) only on a connection that is closed.
THEOREM RemoteTypes == Spec => []TypeOK
<1>1. RemoteInv => TypeOK
  BY DEF RemoteInv
<1> QED
  BY <1>1, RemoteInductive, PTL

\* connection.ts:109: what the signer uses, and what it stores for the next visit, is a
\* pairing the bunker acknowledged.
THEOREM Acknowledgement == Spec => []OnlyAcknowledgedPairings
<1>1. RemoteInv => OnlyAcknowledgedPairings
  BY DEF RemoteInv, AckedFirst
<1> QED
  BY <1>1, RemoteInductive, PTL

\* connection.ts:117 and signer.ts:173: every open connection is somebody's to close, but
\* those an overlapping connect() replaced, and the signer's own is open with its key intact.
THEOREM NoLeak == Spec => []NothingLeaks
<1>1. RemoteInv => NothingLeaks
  <2> SUFFICES ASSUME RemoteInv
               PROVE  NothingLeaks
    OBVIOUS
  <2>1. \A c \in Call : Holds(c) => c \in InFlight
    BY DEF Holds, InFlight
  <2>2. current # None => current \in Conn /\ conn[current].st = "open"
    BY DEF RemoteInv, Holders, TypeOK, Opt
  <2>3. current # None => ~conn[current].zero
    BY <2>2 DEF RemoteInv, TypeOK
  <2> QED
    BY <2>1, <2>2, <2>3 DEF RemoteInv, Held, NothingLeaks
<1> QED
  BY <1>1, RemoteInductive, PTL

\* connect() and disconnect(), once no call is under way: what is stored is what is in use,
\* unless calls overlapped or the store would not forget what a disconnect() had dropped.
THEOREM StoredIsUsed == Spec => []StoreAgrees
<1>1. RemoteInv => StoreAgrees
  BY DEF RemoteInv, Agreed, StoreAgrees, InFlight
<1> QED
  BY <1>1, RemoteInductive, PTL
=============================================================================
