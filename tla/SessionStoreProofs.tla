------------------------- MODULE SessionStoreProofs -------------------------
(***************************************************************************)
(* Proofs about SessionStore, for every set of sessions, users and         *)
(* goroutines and every limit.                                             *)
(***************************************************************************)
EXTENDS SessionStore, FiniteSetTheorems, TLAPS

\* Sessions whose row a delete or the cleaner has still to close.
Closing == {id \in SessionId : \/ id \in expiring
                               \/ \E p \in Proc : proc[p].pc = "close" /\ proc[p].id = id}

Excused == faulted \cup overtaken

\* No call runs while the process is down.
DownInv == ~up => /\ live = {}
                  /\ expiring = {}
                  /\ \A p \in Proc : proc[p].pc = "idle"

\* A save in progress: its row does not exist, nobody else saves it, and when
\* its session has left the map, the close is still to come or found no row.
SaveInv ==
    \A p \in Proc : proc[p].pc = "save" =>
        /\ attached
        /\ proc[p].id \in issued
        /\ status[proc[p].id] = "none"
        /\ proc[p].id \in live \cup Excused \cup Closing
        /\ \A q \in Proc : (proc[q].pc = "save" /\ proc[q].id = proc[p].id) => q = p

\* A session that is being closed has left the map.
CloseInv ==
    /\ Closing \cap live = {}
    /\ \A p \in Proc : proc[p].pc = "close" => proc[p].id \in issued
    /\ expiring \subseteq issued

\* Without a table every session of this run is excused.
DetachedInv == (up /\ ~attached) => live \subseteq faulted

IssuedInv ==
    /\ live \subseteq issued
    /\ removed \subseteq issued
    /\ \A id \in SessionId \ issued : status[id] = "none"

\* A removed session has no active row, up or down.
RemovedInv ==
    \A id \in removed \ (Excused \cup Closing) : id \notin live /\ status[id] # "active"

StoreInv ==
    /\ DownInv /\ SaveInv /\ CloseInv /\ DetachedInv /\ IssuedInv
    /\ ClosedStaysClosed /\ WriteThrough /\ RemovedInv

-----------------------------------------------------------------------------
(* Type correctness. *)

\* The records the calls are set to are well formed.
LEMMA RecordTypes ==
    /\ AtRest \in ProcRec
    /\ \A via \in {"rest", "ws"} : Finished(via) \in ProcRec
    /\ \A u \in Owner, via \in {"rest", "ws"} :
           [AtRest EXCEPT !.pc = "insert", !.user = u, !.via = via] \in ProcRec
    /\ \A id \in SessionId, via \in {"rest", "ws"} :
           [AtRest EXCEPT !.pc = "close", !.id = id, !.via = via] \in ProcRec
  BY DEF AtRest, Finished, ProcRec, Owner

\* Ages stay within their range.
LEMMA OlderType == ASSUME NEW a \in Age PROVE Older(a) \in Age /\ Older(a) >= a
  BY SessionStoreAssumption DEF Older, Age

\* Type correctness of every reachable state.
THEOREM TypeCorrect == Spec => []TypeOK
<1>1. Init => TypeOK
  <2> SUFFICES ASSUME Init PROVE TypeOK
    OBVIOUS
  <2>1. proc \in [Proc -> ProcRec]
    BY RecordTypes DEF Init
  <2>2. \A p \in Proc : proc[p].pc = "idle"
    BY DEF Init, AtRest
  <2>3. idle \in [SessionId -> Age] /\ rowIdle \in [SessionId -> Age]
    BY SessionStoreAssumption DEF Init, Age
  <2> QED BY <2>1, <2>2, <2>3 DEF Init, TypeOK, Owner, Status
<1>2. TypeOK /\ [Next]_vars => TypeOK'
  <2> SUFFICES ASSUME TypeOK, [Next]_vars PROVE TypeOK'
    OBVIOUS
  <2> USE DEF TypeOK
  <2>0. \A p \in Proc : /\ proc[p].via \in {"rest", "ws"}
                        /\ Finished(proc[p].via) \in ProcRec
                        /\ Finished(proc[p].via).pc \notin {"save", "close"}
    <3>1. \A p \in Proc : proc[p].via \in {"rest", "ws"}
      BY DEF ProcRec
    <3> QED BY <3>1, RecordTypes DEF Finished, AtRest
  <2>1. ASSUME NEW p \in Proc, NEW u \in Owner, NEW via \in {"rest", "ws"},
               CreateCheck(p, u, via)
        PROVE TypeOK'
    <3>1. proc' \in [Proc -> ProcRec]
      BY <2>1, RecordTypes DEF CreateCheck
    <3>2. \A q \in Proc : proc'[q].pc \in {"save", "close"} => proc'[q].id \in SessionId
      BY <2>1 DEF CreateCheck, AtRest
    <3> QED BY <2>1, <3>1, <3>2 DEF CreateCheck, store, table, history
  <2>2. ASSUME NEW p \in Proc, NEW id \in SessionId, CreateInsert(p, id)
        PROVE TypeOK'
    <3>1. [proc[p] EXCEPT !.pc = "save", !.id = id] \in ProcRec /\ proc[p].user \in Owner
      BY DEF ProcRec
    <3>2. proc' \in [Proc -> ProcRec]
      <4>1. CASE attached
        BY <2>2, <3>1, <4>1 DEF CreateInsert
      <4>2. CASE ~attached
        BY <2>0, <2>2, <4>2 DEF CreateInsert, Created
      <4> QED BY <4>1, <4>2
    <3>3. \A q \in Proc : proc'[q].pc \in {"save", "close"} => proc'[q].id \in SessionId
      <4>1. CASE attached
        <5>1. proc'[p].id = id
          BY <2>2, <4>1 DEF CreateInsert, ProcRec
        <5> QED BY <2>2, <4>1, <5>1 DEF CreateInsert
      <4>2. CASE ~attached
        BY <2>0, <2>2, <4>2 DEF CreateInsert, Created
      <4> QED BY <4>1, <4>2
    <3>4. idle' \in [SessionId -> Age]
      BY <2>2, SessionStoreAssumption DEF CreateInsert, Age
    <3> QED BY <2>2, <3>1, <3>2, <3>3, <3>4 DEF CreateInsert, Created, table
  <2>3. ASSUME NEW p \in Proc, CreateSave(p) PROVE TypeOK'
    <3>1. proc' \in [Proc -> ProcRec]
      BY <2>0, <2>3 DEF CreateSave, Created
    <3>2. \A q \in Proc : proc'[q].pc \in {"save", "close"} => proc'[q].id \in SessionId
      BY <2>0, <2>3 DEF CreateSave, Created
    <3>3. status' \in [SessionId -> Status] /\ rowIdle' \in [SessionId -> Age]
      BY <2>3 DEF CreateSave, Status
    <3> QED BY <2>3, <3>1, <3>2, <3>3 DEF CreateSave, Created, store, history
  <2>4. ASSUME NEW p \in Proc, CreateSaveFails(p) PROVE TypeOK'
    <3>1. proc' \in [Proc -> ProcRec]
      BY <2>0, <2>4 DEF CreateSaveFails, Created
    <3>2. \A q \in Proc : proc'[q].pc \in {"save", "close"} => proc'[q].id \in SessionId
      BY <2>0, <2>4 DEF CreateSaveFails, Created
    <3> QED BY <2>4, <3>1, <3>2 DEF CreateSaveFails, Created, store, table
  <2>5. ASSUME NEW id \in SessionId, Touch(id) PROVE TypeOK'
    BY <2>5, SessionStoreAssumption DEF Touch, table, history, Age
  <2>6. ASSUME NEW p \in Proc, NEW id \in SessionId, NEW via \in {"rest", "ws"},
               DeleteRemove(p, id, via)
        PROVE TypeOK'
    <3>1. proc' \in [Proc -> ProcRec]
      BY <2>6, RecordTypes DEF DeleteRemove
    <3>2. \A q \in Proc : proc'[q].pc \in {"save", "close"} => proc'[q].id \in SessionId
      BY <2>6 DEF DeleteRemove, Finished, AtRest
    <3> QED BY <2>6, <3>1, <3>2 DEF DeleteRemove, table
  <2>7. ASSUME NEW id \in SessionId, DeleteMissing(id) PROVE TypeOK'
    BY <2>7 DEF DeleteMissing, store, table, history
  <2>8. ASSUME NEW p \in Proc, DeleteRow(p) \/ DeleteRowFails(p) PROVE TypeOK'
    <3>1. proc' \in [Proc -> ProcRec]
      BY <2>0, <2>8 DEF DeleteRow, DeleteRowFails
    <3>2. \A q \in Proc : proc'[q].pc \in {"save", "close"} => proc'[q].id \in SessionId
      BY <2>0, <2>8 DEF DeleteRow, DeleteRowFails
    <3>3. CASE DeleteRow(p)
      BY <3>1, <3>2, <3>3 DEF DeleteRow, CloseRow, store, Status, Closed
    <3>4. CASE DeleteRowFails(p)
      BY <3>1, <3>2, <3>4 DEF DeleteRowFails, store, table
    <3> QED BY <2>8, <3>3, <3>4
  <2>9. ASSUME NEW p \in Proc, Gauge(p) PROVE TypeOK'
    <3>1. Cardinality(live) \in Nat
      BY SessionStoreAssumption, FS_Subset, FS_CardinalityType
    <3>2. CASE CountSessions(p)
      <4>1. [proc[p] EXCEPT !.pc = "gauge", !.seen = Cardinality(live)] \in ProcRec
        BY <3>1 DEF ProcRec
      <4>2. proc' \in [Proc -> ProcRec]
        BY <3>2, <4>1 DEF CountSessions
      <4>3. \A q \in Proc : proc'[q].pc \in {"save", "close"} => proc'[q].id \in SessionId
        BY <3>2 DEF CountSessions
      <4> QED BY <3>2, <4>2, <4>3 DEF CountSessions, store, table, history
    <3>3. CASE SetGauge(p)
      <4>1. proc' \in [Proc -> ProcRec]
        BY <3>3, RecordTypes DEF SetGauge
      <4>2. \A q \in Proc : proc'[q].pc \in {"save", "close"} => proc'[q].id \in SessionId
        BY <3>3 DEF SetGauge, AtRest
      <4>3. gauge' \in Nat
        BY <3>3 DEF SetGauge, ProcRec
      <4> QED BY <3>3, <4>1, <4>2, <4>3 DEF SetGauge, store, table, history
    <3> QED BY <2>9, <3>2, <3>3 DEF Gauge
  <2>10. ASSUME Cleaner PROVE TypeOK'
    <3>1. CASE Cleanup
      BY <3>1 DEF Cleanup, Expired, ToMark, table
    <3>2. ASSUME NEW id \in SessionId, ExpireRow(id) PROVE TypeOK'
      BY <3>2 DEF ExpireRow, CloseRow, store, Status, Closed
    <3>3. ASSUME NEW id \in SessionId, ExpireRowFails(id) PROVE TypeOK'
      BY <3>3 DEF ExpireRowFails, store, table
    <3> QED BY <2>10, <3>1, <3>2, <3>3 DEF Cleaner
  <2>11. CASE Stop
    <3>1. proc' \in [Proc -> ProcRec]
      BY <2>11, RecordTypes DEF Stop
    <3>2. \A q \in Proc : proc'[q].pc \in {"save", "close"} => proc'[q].id \in SessionId
      BY <2>11 DEF Stop, AtRest
    <3> QED BY <2>11, <3>1, <3>2 DEF Stop, Pending, table
  <2>12. CASE Restart \/ RestartEmpty
    <3>1. \A id \in ActiveRows : id \in SessionId
      BY DEF ActiveRows
    <3>2. CASE Restart
      <4>1. owner' \in [SessionId -> Owner] /\ idle' \in [SessionId -> Age]
        BY <3>2 DEF Restart, Hydrate, Owner
      <4>2. live' \subseteq SessionId
        BY <3>1, <3>2 DEF Restart, Hydrate
      <4> QED BY <3>2, <4>1, <4>2 DEF Restart, table, history
    <3>3. CASE RestartEmpty
      BY <3>1, <3>3 DEF RestartEmpty, store, table
    <3> QED BY <2>12, <3>2, <3>3
  <2>13. CASE Tick
    <3>1. idle' \in [SessionId -> Age]
      BY <2>13, OlderType, SessionStoreAssumption DEF Tick, Age
    <3>2. rowIdle' \in [SessionId -> Age]
      BY <2>13, OlderType DEF Tick
    <3> QED BY <2>13, <3>1, <3>2 DEF Tick, history
  <2>14. CASE UNCHANGED vars
    BY <2>14 DEF vars, store, table, history
  <2> QED
    BY <2>1, <2>2, <2>3, <2>4, <2>5, <2>6, <2>7, <2>8, <2>9, <2>10, <2>11, <2>12,
       <2>13, <2>14 DEF Next, Create, Delete
<1> QED BY <1>1, <1>2, PTL DEF Spec

-----------------------------------------------------------------------------
(* The inductive invariant. *)

\* The initial states satisfy it.
LEMMA StoreInvInit == Init => StoreInv
  BY DEF Init, StoreInv, DownInv, SaveInv, CloseInv, DetachedInv, IssuedInv,
         ClosedStaysClosed, WriteThrough, RemovedInv, Closing, Excused, AtRest

\* Every step preserves it.
LEMMA StoreInvStep ==
  ASSUME TypeOK, TypeOK', StoreInv, [Next]_vars
  PROVE  StoreInv'
<1> USE DEF TypeOK, StoreInv, DownInv, SaveInv, CloseInv, DetachedInv, IssuedInv,
            ClosedStaysClosed, WriteThrough, RemovedInv, Closing, Excused, Pending
<1>0. \A p \in Proc : /\ proc[p].via \in {"rest", "ws"}
                      /\ Finished(proc[p].via).pc \in {"idle", "count"}
  BY DEF ProcRec, Finished, AtRest
<1>s. SaveInv
  OBVIOUS
<1>c. CloseInv
  OBVIOUS
<1>i. IssuedInv
  OBVIOUS
<1>1. ASSUME NEW p \in Proc, NEW u \in Owner, NEW via \in {"rest", "ws"},
             CreateCheck(p, u, via)
      PROVE StoreInv'
  <2>1. proc'[p].pc = "insert" /\ proc[p].pc = "idle" /\ \A q \in Proc \ {p} : proc'[q] = proc[q]
    BY <1>1 DEF CreateCheck, AtRest
  <2>2. UNCHANGED <<up, attached, live, owner, idle, issued, status, rowIdle, wired,
                    expiring, gauge, removed, faulted, overtaken>> /\ up
    BY <1>1 DEF CreateCheck, store, table, history
  <2>3. Closing' = Closing /\ Pending' = Pending
    BY ONLY <2>1, <2>2 DEF Closing, Pending
  <2>4. SaveInv'
    BY ONLY <1>s, <2>1, <2>2, <2>3 DEF SaveInv, Excused
  <2>5. CloseInv' /\ DownInv'
    BY <2>1, <2>2, <2>3
  <2>6. DetachedInv' /\ IssuedInv' /\ ClosedStaysClosed' /\ WriteThrough' /\ RemovedInv'
    BY <2>2, <2>3
  <2> QED BY <2>4, <2>5, <2>6
<1>2. ASSUME NEW p \in Proc, NEW id \in SessionId, CreateInsert(p, id)
      PROVE StoreInv'
  <2>1. CASE attached
    <3>1. /\ proc'[p].pc = "save" /\ proc'[p].id = id /\ proc[p].pc = "insert"
          /\ \A q \in Proc \ {p} : proc'[q] = proc[q]
      <4>1. proc' = [proc EXCEPT ![p] = [@ EXCEPT !.pc = "save", !.id = id]]
        BY <1>2, <2>1 DEF CreateInsert
      <4>2. [proc[p] EXCEPT !.pc = "save", !.id = id].pc = "save"
        BY DEF ProcRec
      <4>3. [proc[p] EXCEPT !.pc = "save", !.id = id].id = id
        BY DEF ProcRec
      <4> QED BY <1>2, <4>1, <4>2, <4>3 DEF CreateInsert
    <3>2. /\ up' = up /\ attached' = attached /\ status' = status /\ expiring' = expiring
          /\ removed' = removed /\ faulted' = faulted /\ overtaken' = overtaken
          /\ id \notin issued /\ issued' = issued \cup {id} /\ live' = live \cup {id}
      BY <1>2, <2>1 DEF CreateInsert, table
    <3>3. Closing' = Closing /\ Pending' = Pending \cup {id}
      BY ONLY <3>1, <3>2 DEF Closing, Pending
    <3>5. SaveInv'
      BY ONLY <1>s, <1>i, <2>1, <3>1, <3>2, <3>3 DEF SaveInv, IssuedInv, Excused
    <3>6. CloseInv'
      BY ONLY <1>c, <1>s, <2>1, <3>1, <3>2, <3>3 DEF CloseInv, SaveInv
    <3>7. DownInv' /\ DetachedInv' /\ IssuedInv'
      BY <2>1, <3>1, <3>2, <3>3 DEF Closed
    <3>8. ClosedStaysClosed' /\ WriteThrough'
      BY <2>1, <3>1, <3>2, <3>3 DEF Closed
    <3>9. RemovedInv'
      BY <2>1, <3>1, <3>2, <3>3 DEF Closed
    <3> QED BY <3>5, <3>6, <3>7, <3>8, <3>9
  <2>2. CASE ~attached
    <3>1. /\ proc'[p].pc \in {"idle", "count"} /\ proc[p].pc = "insert"
          /\ \A q \in Proc \ {p} : proc'[q] = proc[q]
      BY <1>0, <1>2, <2>2 DEF CreateInsert, Created
    <3>2. /\ up' = up /\ attached' = attached /\ status' = status /\ expiring' = expiring
          /\ removed' = removed /\ faulted' = faulted \cup {id} /\ overtaken' = overtaken
          /\ id \notin issued /\ issued' = issued \cup {id} /\ live' = live \cup {id}
      BY <1>2, <2>2 DEF CreateInsert, Created, table
    <3>3. Closing' = Closing /\ Pending' = Pending
      BY ONLY <3>1, <3>2 DEF Closing, Pending
    <3>5. SaveInv'
      BY ONLY <1>s, <2>2, <3>1, <3>2, <3>3 DEF SaveInv, Excused
    <3>6. CloseInv'
      BY ONLY <1>c, <1>s, <2>2, <3>1, <3>2, <3>3 DEF CloseInv, SaveInv
    <3>7. DownInv' /\ DetachedInv' /\ IssuedInv'
      BY <2>2, <3>1, <3>2, <3>3 DEF Closed
    <3>8. ClosedStaysClosed' /\ WriteThrough'
      BY <2>2, <3>1, <3>2, <3>3 DEF Closed
    <3>9. RemovedInv'
      BY <2>2, <3>1, <3>2, <3>3 DEF Closed
    <3> QED BY <3>5, <3>6, <3>7, <3>8, <3>9
  <2> QED BY <2>1, <2>2
<1>3. ASSUME NEW p \in Proc, CreateSave(p) PROVE StoreInv'
  <2> DEFINE id == proc[p].id
  <2>1. /\ proc'[p].pc \in {"idle", "count"} /\ proc[p].pc = "save"
        /\ \A q \in Proc \ {p} : proc'[q] = proc[q]
    BY <1>0, <1>3 DEF CreateSave, Created
  <2>2. /\ up' = up /\ attached' = attached /\ expiring' = expiring /\ live' = live
        /\ issued' = issued /\ removed' = removed /\ faulted' = faulted
        /\ overtaken' = overtaken /\ status' = [status EXCEPT ![id] = "active"]
    BY <1>3, <2>1 DEF CreateSave, Created, store, history
  <2>3. Closing' = Closing /\ Pending \subseteq Pending' \cup {id}
    BY ONLY <2>1, <2>2 DEF Closing, Pending
  <2>4. id \in live \cup Excused \cup Closing
    BY <2>1
  <2>5. SaveInv'
    BY ONLY <1>s, <2>1, <2>2, <2>3, <2>4 DEF SaveInv, Excused
  <2>6. CloseInv'
    BY ONLY <1>c, <1>s, <2>1, <2>2, <2>3, <2>4 DEF CloseInv, SaveInv
  <2>7. DownInv' /\ DetachedInv' /\ IssuedInv'
    BY <2>1, <2>2, <2>3, <2>4 DEF Closed
  <2>8. ClosedStaysClosed' /\ WriteThrough'
    BY <2>1, <2>2, <2>3, <2>4 DEF Closed
  <2>9. RemovedInv'
    BY <2>1, <2>2, <2>3, <2>4 DEF Closed
  <2> QED BY <2>5, <2>6, <2>7, <2>8, <2>9
<1>4. ASSUME NEW p \in Proc, CreateSaveFails(p) PROVE StoreInv'
  <2>1. /\ proc'[p].pc \in {"idle", "count"} /\ proc[p].pc = "save"
        /\ \A q \in Proc \ {p} : proc'[q] = proc[q]
    BY <1>0, <1>4 DEF CreateSaveFails, Created
  <2>2. /\ up' = up /\ attached' = attached /\ expiring' = expiring /\ live' = live
        /\ issued' = issued /\ removed' = removed /\ status' = status
        /\ overtaken' = overtaken /\ faulted' = faulted \cup {proc[p].id}
    BY <1>4, <2>1 DEF CreateSaveFails, Created, store, table
  <2>3. Closing' = Closing /\ Pending \subseteq Pending' \cup {proc[p].id}
    BY ONLY <2>1, <2>2 DEF Closing, Pending
  <2>4. SaveInv'
    BY ONLY <1>s, <2>1, <2>2, <2>3 DEF SaveInv, Excused
  <2>6. CloseInv'
    BY ONLY <1>c, <1>s, <2>1, <2>2, <2>3 DEF CloseInv, SaveInv
  <2>7. DownInv'
    BY <2>1, <2>2
  <2>5. DetachedInv' /\ IssuedInv' /\ ClosedStaysClosed' /\ WriteThrough' /\ RemovedInv'
    BY <2>2, <2>3
  <2> QED BY <2>4, <2>5, <2>6, <2>7
<1>5. ASSUME NEW id \in SessionId, Touch(id) \/ DeleteMissing(id) PROVE StoreInv'
  <2>1. UNCHANGED <<up, attached, live, issued, status, proc, expiring, removed,
                    faulted, overtaken>>
    BY <1>5 DEF Touch, DeleteMissing, store, table, history
  <2> QED BY <2>1
<1>6. ASSUME NEW p \in Proc, NEW id \in SessionId, NEW via \in {"rest", "ws"},
             DeleteRemove(p, id, via)
      PROVE StoreInv'
  <2>1. /\ up /\ up' = up /\ attached' = attached /\ expiring' = expiring
        /\ id \in live /\ live' = live \ {id} /\ issued' = issued /\ status' = status
        /\ removed' = removed \cup {id} /\ faulted' = faulted /\ overtaken' = overtaken
        /\ proc[p].pc = "idle" /\ \A q \in Proc \ {p} : proc'[q] = proc[q]
    BY <1>6 DEF DeleteRemove, table
  <2>2. CASE attached
    <3>1. proc'[p].pc = "close" /\ proc'[p].id = id
      BY <1>6, <2>2 DEF DeleteRemove, AtRest
    <3>2. Closing' = Closing \cup {id} /\ Pending' = Pending \cup {id}
      BY ONLY <2>1, <3>1 DEF Closing, Pending
    <3>5. SaveInv'
      BY ONLY <1>s, <2>1, <2>2, <3>1, <3>2 DEF SaveInv, Excused
    <3>6. CloseInv'
      BY ONLY <1>c, <1>i, <2>1, <2>2, <3>1, <3>2 DEF CloseInv, IssuedInv
    <3>7. DownInv' /\ DetachedInv' /\ IssuedInv'
      BY <2>1, <2>2, <3>1, <3>2
    <3>8. ClosedStaysClosed' /\ WriteThrough'
      BY <2>1, <2>2, <3>1, <3>2
    <3>9. RemovedInv'
      BY <2>1, <2>2, <3>1, <3>2
    <3> QED BY <3>5, <3>6, <3>7, <3>8, <3>9
  <2>3. CASE ~attached
    <3>1. proc'[p].pc \in {"idle", "count"}
      BY <1>6, <2>3 DEF DeleteRemove, Finished, AtRest
    <3>2. Closing' = Closing /\ Pending' = Pending
      BY ONLY <2>1, <3>1 DEF Closing, Pending
    <3>3. id \in faulted
      BY <2>1, <2>3
    <3>5. SaveInv'
      BY ONLY <1>s, <2>1, <3>1, <3>2, <3>3 DEF SaveInv, Excused
    <3>6. CloseInv'
      BY ONLY <1>c, <1>i, <2>1, <2>3, <3>1, <3>2, <3>3 DEF CloseInv, IssuedInv
    <3>7. DownInv' /\ DetachedInv' /\ IssuedInv'
      BY <2>1, <2>3, <3>1, <3>2, <3>3
    <3>8. ClosedStaysClosed' /\ WriteThrough'
      BY <2>1, <2>3, <3>1, <3>2, <3>3
    <3>9. RemovedInv'
      BY <2>1, <2>3, <3>1, <3>2, <3>3
    <3> QED BY <3>5, <3>6, <3>7, <3>8, <3>9
  <2> QED BY <2>2, <2>3
<1>7. ASSUME NEW p \in Proc, DeleteRow(p) \/ DeleteRowFails(p) PROVE StoreInv'
  <2> DEFINE id == proc[p].id
  <2>1. /\ proc'[p].pc \in {"idle", "count"} /\ proc[p].pc = "close"
        /\ \A q \in Proc \ {p} : proc'[q] = proc[q]
    BY <1>0, <1>7 DEF DeleteRow, DeleteRowFails
  <2>2. /\ up' = up /\ attached' = attached /\ expiring' = expiring /\ live' = live
        /\ issued' = issued /\ removed' = removed
    BY <1>7 DEF DeleteRow, DeleteRowFails, store
  <2>3. Closing \subseteq Closing' \cup {id} /\ Pending \subseteq Pending' \cup {id}
        /\ Closing' \subseteq Closing
    BY <2>1, <2>2
  <2>4. CASE DeleteRow(p)
    <3>1. /\ status' = [status EXCEPT ![id] = IF @ = "active" THEN "completed" ELSE @]
          /\ overtaken' = IF status[id] = "none" THEN overtaken \cup {id} ELSE overtaken
          /\ faulted' = faulted
      BY <2>4 DEF DeleteRow, CloseRow
    <3>5. SaveInv'
      BY ONLY <1>s, <2>1, <2>2, <2>3, <3>1 DEF SaveInv, Excused
    <3>6. CloseInv'
      BY ONLY <1>c, <1>s, <2>1, <2>2, <2>3, <3>1 DEF CloseInv, SaveInv
    <3>7. DownInv' /\ DetachedInv' /\ IssuedInv'
      BY <2>1, <2>2, <2>3, <3>1 DEF Closed
    <3>8. ClosedStaysClosed' /\ WriteThrough'
      BY <2>1, <2>2, <2>3, <3>1 DEF Closed
    <3>9. RemovedInv'
      BY <2>1, <2>2, <2>3, <3>1 DEF Closed
    <3> QED BY <3>5, <3>6, <3>7, <3>8, <3>9
  <2>5. CASE DeleteRowFails(p)
    <3>1. status' = status /\ overtaken' = overtaken /\ faulted' = faulted \cup {id}
      BY <2>5 DEF DeleteRowFails, table
    <3>5. SaveInv'
      BY ONLY <1>s, <2>1, <2>2, <2>3, <3>1 DEF SaveInv, Excused
    <3>6. CloseInv'
      BY ONLY <1>c, <1>s, <2>1, <2>2, <2>3, <3>1 DEF CloseInv, SaveInv
    <3>7. DownInv' /\ DetachedInv' /\ IssuedInv'
      BY <2>1, <2>2, <2>3, <3>1
    <3>8. ClosedStaysClosed' /\ WriteThrough'
      BY <2>1, <2>2, <2>3, <3>1
    <3>9. RemovedInv'
      BY <2>1, <2>2, <2>3, <3>1
    <3> QED BY <3>5, <3>6, <3>7, <3>8, <3>9
  <2> QED BY <1>7, <2>4, <2>5
<1>8. ASSUME NEW p \in Proc, Gauge(p) PROVE StoreInv'
  <2>1. /\ proc'[p].pc \in {"idle", "gauge"} /\ proc[p].pc \in {"count", "gauge"}
        /\ \A q \in Proc \ {p} : proc'[q] = proc[q]
    BY <1>8 DEF Gauge, CountSessions, SetGauge, AtRest, ProcRec
  <2>2. UNCHANGED <<up, attached, live, issued, status, expiring, removed, faulted, overtaken>>
    BY <1>8 DEF Gauge, CountSessions, SetGauge, store, table, history
  <2>3. Closing' = Closing /\ Pending' = Pending
    BY ONLY <2>1, <2>2 DEF Closing, Pending
  <2>4. SaveInv'
    BY ONLY <1>s, <2>1, <2>2, <2>3 DEF SaveInv, Excused
  <2>7. CloseInv'
    BY ONLY <1>c, <1>s, <2>1, <2>2, <2>3 DEF CloseInv, SaveInv
  <2>5. DetachedInv' /\ IssuedInv' /\ ClosedStaysClosed' /\ WriteThrough' /\ RemovedInv'
    BY <2>2, <2>3
  <2>6. DownInv'
    BY <2>1, <2>2
  <2> QED BY <2>4, <2>5, <2>6, <2>7
<1>9. CASE Cleanup
  <2>1. /\ up /\ up' = up /\ attached' = attached /\ proc' = proc /\ issued' = issued
        /\ Expired \subseteq live /\ live' = live \ Expired /\ status' = status
        /\ removed' = removed \cup Expired /\ faulted' = faulted /\ overtaken' = overtaken
        /\ expiring = {} /\ expiring' = IF attached THEN Expired ELSE {}
    BY <1>9 DEF Cleanup, ToMark, table, Expired
  <2>2. CASE attached
    <3>1. Closing' = Closing \cup Expired /\ Pending' = Pending \cup Expired
      BY <2>1, <2>2
    <3>5. SaveInv'
      BY ONLY <1>s, <2>1, <2>2, <3>1 DEF SaveInv, Excused
    <3>6. CloseInv'
      BY ONLY <1>c, <1>i, <2>1, <2>2, <3>1 DEF CloseInv, IssuedInv
    <3>7. DownInv' /\ DetachedInv' /\ IssuedInv'
      BY <2>1, <2>2, <3>1
    <3>8. ClosedStaysClosed' /\ WriteThrough'
      BY <2>1, <2>2, <3>1
    <3>9. RemovedInv'
      BY <2>1, <2>2, <3>1
    <3> QED BY <3>5, <3>6, <3>7, <3>8, <3>9
  <2>3. CASE ~attached
    <3>1. Closing' = Closing /\ Pending' = Pending
      BY ONLY <2>1, <2>3 DEF Closing, Pending
    <3>2. Expired \subseteq faulted
      BY <2>1, <2>3
    <3>5. SaveInv'
      BY ONLY <1>s, <2>1, <2>3, <3>1, <3>2 DEF SaveInv, Excused
    <3>6. CloseInv'
      BY ONLY <1>c, <1>i, <2>1, <2>3, <3>1, <3>2 DEF CloseInv, IssuedInv
    <3>7. DownInv' /\ DetachedInv' /\ IssuedInv'
      BY <2>1, <2>3, <3>1, <3>2
    <3>8. ClosedStaysClosed' /\ WriteThrough'
      BY <2>1, <2>3, <3>1, <3>2
    <3>9. RemovedInv'
      BY <2>1, <2>3, <3>1, <3>2
    <3> QED BY <3>5, <3>6, <3>7, <3>8, <3>9
  <2> QED BY <2>2, <2>3
<1>10. ASSUME NEW id \in SessionId, ExpireRow(id) \/ ExpireRowFails(id) PROVE StoreInv'
  <2>1. /\ up' = up /\ attached' = attached /\ proc' = proc /\ live' = live
        /\ issued' = issued /\ removed' = removed
        /\ id \in expiring /\ expiring' = expiring \ {id}
    BY <1>10 DEF ExpireRow, ExpireRowFails, store
  <2>2. Closing \subseteq Closing' \cup {id} /\ Pending \subseteq Pending' \cup {id}
        /\ Closing' \subseteq Closing
    BY <2>1
  <2>3. CASE ExpireRow(id)
    <3>1. /\ status' = [status EXCEPT ![id] = IF @ = "active" THEN "expired" ELSE @]
          /\ overtaken' = IF status[id] = "none" THEN overtaken \cup {id} ELSE overtaken
          /\ faulted' = faulted
      BY <2>3 DEF ExpireRow, CloseRow
    <3>5. SaveInv'
      BY ONLY <1>s, <2>1, <2>2, <3>1 DEF SaveInv, Excused
    <3>6. CloseInv'
      BY ONLY <1>c, <1>s, <2>1, <2>2, <3>1 DEF CloseInv, SaveInv
    <3>7. DownInv' /\ DetachedInv' /\ IssuedInv'
      BY <2>1, <2>2, <3>1 DEF Closed
    <3>8. ClosedStaysClosed' /\ WriteThrough'
      BY <2>1, <2>2, <3>1 DEF Closed
    <3>9. RemovedInv'
      BY <2>1, <2>2, <3>1 DEF Closed
    <3> QED BY <3>5, <3>6, <3>7, <3>8, <3>9
  <2>4. CASE ExpireRowFails(id)
    <3>1. status' = status /\ overtaken' = overtaken /\ faulted' = faulted \cup {id}
      BY <2>4 DEF ExpireRowFails, table
    <3>5. SaveInv'
      BY ONLY <1>s, <2>1, <2>2, <3>1 DEF SaveInv, Excused
    <3>6. CloseInv'
      BY ONLY <1>c, <1>s, <2>1, <2>2, <3>1 DEF CloseInv, SaveInv
    <3>7. DownInv' /\ DetachedInv' /\ IssuedInv'
      BY <2>1, <2>2, <3>1
    <3>8. ClosedStaysClosed' /\ WriteThrough'
      BY <2>1, <2>2, <3>1
    <3>9. RemovedInv'
      BY <2>1, <2>2, <3>1
    <3> QED BY <3>5, <3>6, <3>7, <3>8, <3>9
  <2> QED BY <1>10, <2>3, <2>4
<1>11. CASE Stop
  <2>1. /\ ~up' /\ live' = {} /\ expiring' = {} /\ \A q \in Proc : proc'[q].pc = "idle"
        /\ faulted' = faulted \cup Pending /\ UNCHANGED <<issued, status, removed, overtaken>>
    BY <1>11 DEF Stop, AtRest, table
  <2>2. Closing' = {} /\ Pending' = {} /\ Closing \subseteq Pending
    BY <2>1
  <2> QED BY <2>1, <2>2
<1>12. CASE Restart \/ RestartEmpty
  <2>1. /\ ~up /\ up' /\ UNCHANGED <<issued, status, proc, expiring, removed, overtaken>>
    BY <1>12 DEF Restart, RestartEmpty, store, table, history
  <2>2. Closing' = {} /\ Pending' = {} /\ Closing = {}
    BY <2>1
  <2>3. CASE Restart
    <3>1. attached' = TRUE /\ live' = ActiveRows /\ faulted' = faulted
      BY <2>3 DEF Restart, Hydrate, history
    <3> QED BY <2>1, <2>2, <3>1 DEF ActiveRows, Closed
  <2>4. CASE RestartEmpty
    <3>1. live' = {} /\ faulted' = faulted \cup ActiveRows
      BY <2>1, <2>4 DEF RestartEmpty, store
    <3> QED BY <2>1, <2>2, <3>1 DEF ActiveRows
  <2> QED BY <1>12, <2>3, <2>4
<1>13. CASE Tick \/ UNCHANGED vars
  <2>1. UNCHANGED <<up, attached, live, issued, status, proc, expiring, removed,
                    faulted, overtaken>>
    BY <1>13 DEF Tick, vars, store, table, history
  <2> QED BY <2>1
<1> QED
  BY ONLY [Next]_vars, <1>1, <1>2, <1>3, <1>4, <1>5, <1>6, <1>7, <1>8, <1>9, <1>10, <1>11, <1>12,
          <1>13
     DEF Next, Create, Delete, Cleaner

\* The strengthened invariant is an invariant.
LEMMA StoreInvAlways == Spec => []StoreInv
<1>1. Init => StoreInv
  BY StoreInvInit
<1>2. TypeOK /\ TypeOK' /\ StoreInv /\ [Next]_vars => StoreInv'
  BY StoreInvStep
<1> QED BY <1>1, <1>2, TypeCorrect, PTL DEF Spec

\* The table and the map agree on every session that is neither excused nor
\* being worked on.
THEOREM StoreConsistent == Spec => []WriteThrough
<1>1. StoreInv => WriteThrough
  BY DEF StoreInv
<1> QED BY <1>1, StoreInvAlways, PTL

\* A session whose row was closed is never in memory, restarts included.
THEOREM ClosedNeverReturns == Spec => []ClosedStaysClosed
<1>1. StoreInv => ClosedStaysClosed
  BY DEF StoreInv
<1> QED BY <1>1, StoreInvAlways, PTL

\* No session that was removed is in memory again unless it is excused.
THEOREM RemovedNeverReturns == Spec => []RemovedForGood
<1>1. TypeOK /\ StoreInv => RemovedForGood
  BY DEF TypeOK, StoreInv, RemovedForGood, RemovedInv, CloseInv, Excused
<1> QED BY <1>1, StoreInvAlways, TypeCorrect, PTL

-----------------------------------------------------------------------------
(* No session is lost. *)

\* A session that is being closed was removed, and only such a session can be
\* overtaken.
ClosedWereRemoved ==
    /\ expiring \subseteq removed
    /\ \A p \in Proc : proc[p].pc = "close" => proc[p].id \in removed
    /\ overtaken \subseteq removed

\* While the process is down the active rows take the place of the map.
SurviveInv ==
    /\ ClosedWereRemoved
    /\ SessionsSurvive
    /\ ~up => issued \subseteq ActiveRows \cup removed \cup faulted

\* The initial states satisfy it.
LEMMA SurviveInit == Init => SurviveInv
  BY DEF Init, SurviveInv, ClosedWereRemoved, SessionsSurvive, AtRest

\* Every step preserves it.
LEMMA SurviveStep ==
  ASSUME TypeOK, StoreInv, SurviveInv, [Next]_vars
  PROVE  SurviveInv'
<1> USE DEF TypeOK, SurviveInv, ClosedWereRemoved, SessionsSurvive
<1>0. /\ \A p \in Proc : /\ proc[p].via \in {"rest", "ws"}
                         /\ Finished(proc[p].via).pc # "close"
      /\ \A p \in Proc : proc[p].pc # "idle" => up
  BY DEF ProcRec, Finished, AtRest, StoreInv, DownInv
<1>1. ASSUME NEW p \in Proc, NEW u \in Owner, NEW via \in {"rest", "ws"},
             CreateCheck(p, u, via)
      PROVE  SurviveInv'
  BY <1>1 DEF CreateCheck, AtRest, store, table, history
<1>2. ASSUME NEW p \in Proc, NEW id \in SessionId, CreateInsert(p, id) PROVE SurviveInv'
  <2>1. proc'[p].pc # "close" /\ \A q \in Proc \ {p} : proc'[q] = proc[q]
    <3>1. [proc[p] EXCEPT !.pc = "save", !.id = id].pc = "save"
      BY DEF ProcRec
    <3> QED
      BY <1>0, <1>2, <3>1 DEF CreateInsert, Created
  <2>2. /\ up /\ up' = up /\ expiring' = expiring /\ removed' = removed
        /\ overtaken' = overtaken /\ faulted \subseteq faulted'
        /\ issued' = issued \cup {id} /\ live' = live \cup {id}
    BY <1>0, <1>2 DEF CreateInsert, table
  <2> QED
    BY <2>1, <2>2
<1>3. ASSUME NEW p \in Proc, CreateSave(p) \/ CreateSaveFails(p) PROVE SurviveInv'
  <2>1. proc'[p].pc # "close" /\ \A q \in Proc \ {p} : proc'[q] = proc[q]
    BY <1>0, <1>3 DEF CreateSave, CreateSaveFails, Created
  <2>2. /\ up /\ up' = up /\ expiring' = expiring /\ removed' = removed
        /\ overtaken' = overtaken /\ faulted \subseteq faulted'
        /\ issued' = issued /\ live' = live
    BY <1>0, <1>3 DEF CreateSave, CreateSaveFails, store, table, history
  <2> QED
    BY <2>1, <2>2
<1>4. ASSUME NEW id \in SessionId, Touch(id) \/ DeleteMissing(id) PROVE SurviveInv'
  BY <1>4 DEF Touch, DeleteMissing, ActiveRows, store, table, history
<1>5. ASSUME NEW p \in Proc, NEW id \in SessionId, NEW via \in {"rest", "ws"},
             DeleteRemove(p, id, via)
      PROVE  SurviveInv'
  <2>1. proc'[p].pc = "close" => proc'[p].id = id
    BY <1>0, <1>5 DEF DeleteRemove, AtRest, Finished
  <2>2. /\ up /\ up' = up /\ expiring' = expiring /\ removed' = removed \cup {id}
        /\ overtaken' = overtaken /\ faulted' = faulted /\ issued' = issued
        /\ live' = live \ {id} /\ \A q \in Proc \ {p} : proc'[q] = proc[q]
    BY <1>5 DEF DeleteRemove
  <2> QED
    BY <2>1, <2>2
<1>6. ASSUME NEW p \in Proc, DeleteRow(p) \/ DeleteRowFails(p) PROVE SurviveInv'
  <2>1. /\ proc[p].pc = "close" /\ proc'[p].pc # "close"
        /\ \A q \in Proc \ {p} : proc'[q] = proc[q]
    BY <1>0, <1>6 DEF DeleteRow, DeleteRowFails
  <2>2. /\ up /\ up' = up /\ expiring' = expiring /\ removed' = removed
        /\ overtaken' \subseteq overtaken \cup {proc[p].id}
        /\ faulted \subseteq faulted' /\ issued' = issued /\ live' = live
    BY <1>0, <1>6, <2>1 DEF DeleteRow, DeleteRowFails, CloseRow, store
  <2> QED
    BY <2>1, <2>2
<1>7. ASSUME NEW p \in Proc, Gauge(p) PROVE SurviveInv'
  <2>1. proc'[p].pc # "close" /\ \A q \in Proc \ {p} : proc'[q] = proc[q]
    BY <1>7 DEF Gauge, CountSessions, SetGauge, AtRest, ProcRec
  <2>2. UNCHANGED <<up, live, issued, status, expiring, removed, faulted, overtaken>>
    BY <1>7 DEF Gauge, CountSessions, SetGauge, store, table, history
  <2> QED
    BY <2>1, <2>2 DEF ActiveRows
<1>8. CASE Cleanup
  BY <1>8 DEF Cleanup, ToMark
<1>9. ASSUME NEW id \in SessionId, ExpireRow(id) \/ ExpireRowFails(id) PROVE SurviveInv'
  <2>1. up
    BY <1>9 DEF ExpireRow, ExpireRowFails, StoreInv, DownInv
  <2>2. /\ id \in expiring /\ expiring' = expiring \ {id} /\ up' = up /\ proc' = proc
        /\ removed' = removed /\ overtaken' \subseteq overtaken \cup {id}
        /\ faulted \subseteq faulted' /\ issued' = issued /\ live' = live
    BY <1>9 DEF ExpireRow, ExpireRowFails, CloseRow, store
  <2> QED
    BY <2>1, <2>2
\* A session in memory that no call works on has its row, and the row stays.
<1>10. CASE Stop
  <2>1. /\ up /\ ~up' /\ expiring' = {} /\ \A q \in Proc : proc'[q].pc = "idle"
        /\ faulted' = faulted \cup Pending /\ UNCHANGED <<issued, status, removed, overtaken>>
    BY <1>10 DEF Stop, AtRest, table
  <2>2. \A id \in live \ (removed \cup faulted \cup Pending) : id \in ActiveRows
    BY <2>1 DEF StoreInv, IssuedInv, WriteThrough, ActiveRows
  <2> QED
    BY <2>1, <2>2 DEF ActiveRows
<1>11. CASE Restart
  BY <1>11 DEF Restart, Hydrate, table, history
<1>12. CASE RestartEmpty
  BY <1>12 DEF RestartEmpty, store, table
<1>13. CASE Tick \/ UNCHANGED vars
  <2>1. UNCHANGED <<up, live, issued, status, proc, expiring, removed, faulted, overtaken>>
    BY <1>13 DEF Tick, vars, store, table, history
  <2> QED
    BY <2>1 DEF ActiveRows
<1> QED
  BY ONLY [Next]_vars, <1>1, <1>2, <1>3, <1>4, <1>5, <1>6, <1>7, <1>8, <1>9, <1>10, <1>11,
          <1>12, <1>13
     DEF Next, Create, Delete, Cleaner

\* A session that nobody deleted, that did not expire and none of whose
\* statements failed is in memory, through any number of stops and restarts
\* (HydrateFromDB).
THEOREM SessionsAlwaysSurvive == Spec => []SessionsSurvive
<1>1. SurviveInv => SessionsSurvive
  BY DEF SurviveInv
<1>2. TypeOK /\ StoreInv /\ SurviveInv /\ [Next]_vars => SurviveInv'
  BY SurviveStep
<1> QED
  BY <1>1, <1>2, SurviveInit, StoreInvAlways, TypeCorrect, PTL DEF Spec

-----------------------------------------------------------------------------
(* Idle times across a restart. *)

RowNeverFresher == \A id \in ActiveRows : rowIdle[id] >= idle[id]

\* The age of a row never falls below the age of its session.
LEMMA RowAgeStep ==
  ASSUME TypeOK, TypeOK', StoreInv, RowNeverFresher, [Next]_vars
  PROVE  RowNeverFresher'
<1> USE DEF TypeOK, RowNeverFresher, ActiveRows, Age
<1>1. ASSUME NEW p \in Proc, Create(p) PROVE RowNeverFresher'
  <2>1. ASSUME NEW u \in Owner, NEW via \in {"rest", "ws"}, CreateCheck(p, u, via)
        PROVE RowNeverFresher'
    BY <2>1 DEF CreateCheck, store, table
  <2>2. ASSUME NEW id \in SessionId, CreateInsert(p, id) PROVE RowNeverFresher'
    BY <2>2 DEF CreateInsert, table, StoreInv, IssuedInv
  <2>3. CASE CreateSave(p)
    BY <2>3 DEF CreateSave, store
  <2>4. CASE CreateSaveFails(p)
    BY <2>4 DEF CreateSaveFails, store, table
  <2> QED BY <1>1, <2>1, <2>2, <2>3, <2>4 DEF Create
<1>2. ASSUME NEW id \in SessionId, Touch(id) \/ DeleteMissing(id) PROVE RowNeverFresher'
  BY <1>2 DEF Touch, DeleteMissing, store, table
<1>3. ASSUME NEW p \in Proc, Delete(p) \/ Gauge(p) PROVE RowNeverFresher'
  <2>1. rowIdle' = rowIdle /\ idle' = idle /\ ActiveRows' \subseteq ActiveRows
    BY <1>3 DEF Delete, DeleteRemove, DeleteRow, DeleteRowFails, CloseRow, Gauge,
                CountSessions, SetGauge, store, table
  <2> QED BY <2>1
<1>4. CASE Cleaner
  <2>1. rowIdle' = rowIdle /\ idle' = idle /\ ActiveRows' \subseteq ActiveRows
    BY <1>4 DEF Cleaner, Cleanup, ExpireRow, ExpireRowFails, CloseRow, store, table
  <2> QED BY <2>1
<1>5. CASE Stop \/ RestartEmpty \/ UNCHANGED vars
  BY <1>5 DEF Stop, RestartEmpty, vars, store, table
<1>6. CASE Restart
  BY <1>6 DEF Restart, Hydrate, table
<1>7. CASE Tick
  BY <1>7, SessionStoreAssumption DEF Tick, Older
<1> QED
  BY <1>1, <1>2, <1>3, <1>4, <1>5, <1>6, <1>7 DEF Next

\* A restart never makes a session look more recently used than it was.
THEOREM RestartKeepsAge == Spec => RestartNeverRejuvenates
<1>1. Init => RowNeverFresher
  BY DEF Init, RowNeverFresher, ActiveRows
<1>2. TypeOK /\ TypeOK' /\ StoreInv /\ RowNeverFresher /\ [Next]_vars => RowNeverFresher'
  BY RowAgeStep
<1>3. TypeOK /\ TypeOK' /\ RowNeverFresher /\ [Next]_vars
        => [(~up /\ up') => \A id \in live' : idle'[id] >= idle[id]]_vars
  <2> SUFFICES ASSUME TypeOK, TypeOK', RowNeverFresher, [Next]_vars, ~up, up'
               PROVE  \A id \in live' : idle'[id] >= idle[id]
    OBVIOUS
  <2>1. Restart \/ RestartEmpty
    BY DEF Next, Create, Delete, Gauge, Cleaner, CreateCheck, CreateInsert, CreateSave,
           CreateSaveFails, DeleteRemove, DeleteRow, DeleteRowFails, CountSessions, SetGauge,
           Touch, DeleteMissing, Cleanup, ExpireRow, ExpireRowFails, Stop, Tick, vars
  <2>2. CASE Restart
    BY <2>2 DEF Restart, Hydrate, RowNeverFresher, ActiveRows, TypeOK, Age
  <2>3. CASE RestartEmpty
    BY <2>3 DEF RestartEmpty, store, TypeOK, Age
  <2> QED BY <2>1, <2>2, <2>3
<1>4. Init => StoreInv
  BY StoreInvInit
<1>5. TypeOK /\ TypeOK' /\ StoreInv /\ [Next]_vars => StoreInv'
  BY StoreInvStep
<1> QED BY <1>1, <1>2, <1>3, <1>4, <1>5, TypeCorrect, PTL DEF Spec, RestartNeverRejuvenates

-----------------------------------------------------------------------------
(* How far the quota can be overshot. *)

\* The two sets the bound counts are finite, and counting them is monotone.
LEMMA QuotaSets ==
  ASSUME TypeOK, NEW u \in User
  PROVE  /\ IsFiniteSet(Held(u)) /\ Cardinality(Held(u)) \in Nat
         /\ IsFiniteSet(Creating(u)) /\ Cardinality(Creating(u)) \in Nat
         /\ Cardinality(Creating(u)) <= Cardinality(Proc) /\ Cardinality(Proc) \in Nat
         /\ \A S \in SUBSET Held(u) : Cardinality(S) \in Nat
                                     /\ Cardinality(S) <= Cardinality(Held(u))
         /\ \A S \in SUBSET Creating(u) : Cardinality(S) \in Nat
                                         /\ Cardinality(S) <= Cardinality(Creating(u))
<1>1. Held(u) \in SUBSET SessionId /\ Creating(u) \in SUBSET Proc
  BY DEF TypeOK, Held, Creating
<1>2. IsFiniteSet(Held(u)) /\ IsFiniteSet(Creating(u))
      /\ Cardinality(Creating(u)) <= Cardinality(Proc)
  BY <1>1, SessionStoreAssumption, FS_Subset
<1>3. \A S \in SUBSET Held(u) : IsFiniteSet(S) /\ Cardinality(S) <= Cardinality(Held(u))
  BY <1>2, FS_Subset
<1>4. \A S \in SUBSET Creating(u) : IsFiniteSet(S) /\ Cardinality(S) <= Cardinality(Creating(u))
  BY <1>2, FS_Subset
<1> QED BY <1>2, <1>3, <1>4, SessionStoreAssumption, FS_CardinalityType

\* A step either keeps both sets or shrinks them, moves one call from the
\* second to the first, or admits a call after it has read the quota.
LEMMA QuotaStep ==
  ASSUME TypeOK, TypeOK', StoreInv, QuotaOvershoot, [Next]_vars
  PROVE  QuotaOvershoot'
<1> SUFFICES ASSUME NEW u \in User
             PROVE  Cardinality(Held(u))' + Cardinality(Creating(u))'
                      <= MaxPerUser + Cardinality(Proc) - 1
  BY DEF QuotaOvershoot
<1>0. /\ Cardinality(Held(u)) + Cardinality(Creating(u)) <= MaxPerUser + Cardinality(Proc) - 1
      /\ MaxPerUser \in Nat
  BY SessionStoreAssumption DEF QuotaOvershoot
<1>f. \A via : Finished(via).pc \in {"idle", "count"}
  BY DEF Finished, AtRest
<1>s. ASSUME Held(u)' \subseteq Held(u), Creating(u)' \subseteq Creating(u)
      PROVE  Cardinality(Held(u)') + Cardinality(Creating(u)')
               <= MaxPerUser + Cardinality(Proc) - 1
  BY <1>0, <1>s, QuotaSets
<1>1. ASSUME NEW p \in Proc, NEW v \in Owner, NEW via \in {"rest", "ws"},
             CreateCheck(p, v, via)
      PROVE  Cardinality(Held(u)') + Cardinality(Creating(u)')
               <= MaxPerUser + Cardinality(Proc) - 1
  <2>1. Held(u)' = Held(u)
    BY <1>1 DEF CreateCheck, store, Held
  <2>2. CASE v = u
    <3>1. Cardinality(Held(u)) < MaxPerUser
      BY <1>1, <2>2, SessionStoreAssumption DEF CreateCheck, HasRoom
    <3>2. Cardinality(Creating(u)') \in Nat /\ Cardinality(Creating(u)') <= Cardinality(Proc)
      <4>1. Creating(u)' \in SUBSET Proc
        BY DEF Creating
      <4> QED BY <4>1, SessionStoreAssumption, FS_Subset, FS_CardinalityType
    <3> QED BY <2>1, <3>1, <3>2, <1>0, QuotaSets
  <2>3. CASE v # u
    <3>1. Creating(u)' \subseteq Creating(u)
      BY <1>1, <2>3 DEF CreateCheck, Creating, AtRest, TypeOK
    <3> QED BY <2>1, <3>1, <1>s
  <2> QED BY <2>2, <2>3
<1>2. ASSUME NEW p \in Proc, NEW id \in SessionId, CreateInsert(p, id)
      PROVE  Cardinality(Held(u)') + Cardinality(Creating(u)')
               <= MaxPerUser + Cardinality(Proc) - 1
  <2>1. id \notin live /\ live' = live \cup {id} /\ proc[p].pc = "insert"
        /\ owner' = [owner EXCEPT ![id] = proc[p].user]
    BY <1>2 DEF CreateInsert, StoreInv, IssuedInv
  <2>2. proc'[p].pc # "insert" /\ \A q \in Proc \ {p} : proc'[q] = proc[q]
    <3>1. CASE attached
      <4>1. proc' = [proc EXCEPT ![p] = [@ EXCEPT !.pc = "save", !.id = id]]
        BY <1>2, <3>1 DEF CreateInsert
      <4>2. [proc[p] EXCEPT !.pc = "save", !.id = id].pc = "save"
        BY DEF TypeOK, ProcRec
      <4> QED BY <4>1, <4>2 DEF TypeOK
    <3>2. CASE ~attached
      BY <1>2, <1>f, <3>2 DEF CreateInsert, Created, TypeOK
    <3> QED BY <3>1, <3>2
  <2>3. CASE proc[p].user = u
    <3>1. Held(u)' = Held(u) \cup {id} /\ id \notin Held(u)
      BY <2>1, <2>3 DEF Held, TypeOK
    <3>2. Creating(u)' = Creating(u) \ {p} /\ p \in Creating(u)
      BY <2>1, <2>2, <2>3 DEF Creating
    <3>3. Cardinality(Held(u)') = Cardinality(Held(u)) + 1
      BY <3>1, QuotaSets, FS_AddElement
    <3>4. Cardinality(Creating(u)') = Cardinality(Creating(u)) - 1
      BY <3>2, QuotaSets, FS_RemoveElement
    <3> QED BY <3>3, <3>4, <1>0, QuotaSets
  <2>4. CASE proc[p].user # u
    <3>1. Held(u)' \subseteq Held(u)
      BY <2>1, <2>4 DEF Held, TypeOK
    <3>2. Creating(u)' \subseteq Creating(u)
      BY <2>2 DEF Creating
    <3> QED BY <3>1, <3>2, <1>s
  <2> QED BY <2>3, <2>4
<1>3. ASSUME NEW p \in Proc, CreateSave(p) \/ CreateSaveFails(p) \/ Delete(p) \/ Gauge(p)
      PROVE  Held(u)' \subseteq Held(u) /\ Creating(u)' \subseteq Creating(u)
  <2>1. live' \subseteq live /\ owner' = owner
    BY <1>3 DEF CreateSave, CreateSaveFails, Delete, DeleteRemove, DeleteRow,
                DeleteRowFails, Gauge, CountSessions, SetGauge, store
  <2>2. proc'[p].pc # "insert" /\ \A q \in Proc \ {p} : proc'[q] = proc[q]
    <3>1. CASE CreateSave(p) \/ CreateSaveFails(p)
      BY <3>1, <1>f DEF CreateSave, CreateSaveFails, Created, TypeOK
    <3>2. CASE Delete(p)
      <4>1. \A id, via : [AtRest EXCEPT !.pc = "close", !.id = id, !.via = via].pc = "close"
        BY DEF AtRest
      <4>2. ASSUME NEW id \in SessionId, NEW via \in {"rest", "ws"}, DeleteRemove(p, id, via)
            PROVE  proc'[p].pc # "insert" /\ \A q \in Proc \ {p} : proc'[q] = proc[q]
        <5>1. CASE attached
          BY <4>1, <4>2, <5>1 DEF DeleteRemove, TypeOK
        <5>2. CASE ~attached
          BY <1>f, <4>2, <5>2 DEF DeleteRemove, TypeOK
        <5> QED BY <5>1, <5>2
      <4>3. ASSUME DeleteRow(p) \/ DeleteRowFails(p)
            PROVE  proc'[p].pc # "insert" /\ \A q \in Proc \ {p} : proc'[q] = proc[q]
        BY <1>f, <4>3 DEF DeleteRow, DeleteRowFails, TypeOK
      <4> QED BY <3>2, <4>2, <4>3 DEF Delete
    <3>3. CASE Gauge(p)
      BY <3>3 DEF Gauge, CountSessions, SetGauge, AtRest, TypeOK, ProcRec
    <3> QED BY <1>3, <3>1, <3>2, <3>3
  <2> QED BY <2>1, <2>2 DEF Held, Creating
<1>4. ASSUME \/ \E id \in SessionId : Touch(id) \/ DeleteMissing(id)
             \/ Cleaner \/ Tick \/ UNCHANGED vars
      PROVE  Held(u)' \subseteq Held(u) /\ Creating(u)' \subseteq Creating(u)
  <2>1. live' \subseteq live /\ owner' = owner /\ proc' = proc
    BY <1>4 DEF Touch, DeleteMissing, Cleaner, Cleanup, ExpireRow, ExpireRowFails, Tick,
                vars, store
  <2> QED BY <2>1 DEF Held, Creating
<1>5. ASSUME Stop \/ Restart \/ RestartEmpty
      PROVE  Held(u)' \subseteq Held(u) /\ Creating(u)' \subseteq Creating(u)
  <2>1. CASE Stop
    BY <2>1 DEF Stop, Held, Creating, AtRest
  <2>2. CASE Restart
    BY <2>2, SessionStoreAssumption DEF Restart, Hydrate, Held, Creating, ActiveRows
  <2>3. CASE RestartEmpty
    BY <2>3 DEF RestartEmpty, store, Held, Creating
  <2> QED BY <1>5, <2>1, <2>2, <2>3
<1> QED BY <1>1, <1>2, <1>3, <1>4, <1>5, <1>s DEF Next, Create

\* However many calls race, a user exceeds the quota by fewer sessions than
\* there are goroutines.
THEOREM QuotaOvershootBound == Spec => []QuotaOvershoot
<1>1. Init => QuotaOvershoot
  <2> SUFFICES ASSUME Init, NEW u \in User
               PROVE  Cardinality(Held(u)) + Cardinality(Creating(u))
                        <= MaxPerUser + Cardinality(Proc) - 1
    BY DEF QuotaOvershoot
  <2>1. Held(u) = {} /\ Creating(u) = {}
    BY DEF Init, Held, Creating, AtRest
  <2>2. Cardinality(Proc) \in Nat /\ Cardinality({}) = 0
    BY SessionStoreAssumption, FS_CardinalityType, FS_EmptySet
  <2> QED BY <2>1, <2>2, SessionStoreAssumption
<1>2. TypeOK /\ TypeOK' /\ StoreInv /\ QuotaOvershoot /\ [Next]_vars => QuotaOvershoot'
  BY QuotaStep
<1>3. Init => StoreInv
  BY StoreInvInit
<1>4. TypeOK /\ TypeOK' /\ StoreInv /\ [Next]_vars => StoreInv'
  BY StoreInvStep
<1> QED BY <1>1, <1>2, <1>3, <1>4, TypeCorrect, PTL DEF Spec
=============================================================================
