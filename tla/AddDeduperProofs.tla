-------------------------- MODULE AddDeduperProofs --------------------------
(***************************************************************************)
(* Safety of the add-claim registry for any number of callers, targets and *)
(* tokens.  The inductive invariant IInv ties three views of a claim       *)
(* together: the map, the token its owner and its waiters hold, and what   *)
(* the engine, its list and the batch's marks say.  One lemma per conjunct *)
(* shows that every action preserves it.                                   *)
(***************************************************************************)
EXTENDS AddDeduper, TLAPS

\* The list and the history only ever show URLs (collectTaskSourceURLs).
LEMMA RowsHaveUrls ==
  ASSUME TypeOK
  PROVE  RowUrls \subseteq Urls
<1>. SUFFICES ASSUME NEW row \in engine PROVE row[2] \in Urls
  BY DEF RowUrls
<1>. QED
  BY DEF TypeOK

\* Settling or expiring leaves every claim a claim.
LEMMA ClaimsChange ==
  ASSUME tok \in [Tokens -> Claim], NEW t \in Tokens
  PROVE  /\ [tok EXCEPT ![t].live = FALSE] \in [Tokens -> Claim]
         /\ [tok EXCEPT ![t].closed = TRUE] \in [Tokens -> Claim]
<1>1. /\ [tok[t] EXCEPT !.live = FALSE] \in Claim
      /\ [tok[t] EXCEPT !.closed = TRUE] \in Claim
  <2>1. tok[t] \in Claim
    OBVIOUS
  <2>. QED
    BY <2>1 DEF Claim
<1>. QED
  BY <1>1

\* The state keeps its shape, and past LoadOrStore a caller holds a token that
\* exists (acquire, add_deduper.go:73-78).
LEMMA TypeOKStep ==
  ASSUME IInv, [Next]_vars
  PROVE  TypeOK'
<1>. USE TokensAssumption, CallersAssumption DEF IInv, TypeOK, TokensKeyed,
 
  Goto, Tell, CompareAndDelete, registry, request, world, batch, callers,
  Owning, Unsettled, Holding, Undecided, Tokens, Claim, Fresh, States, Results,
  Callers
<1>1. ASSUME NEW c \in Callers, GiveUp(c) PROVE TypeOK'
  BY <1>1 DEF GiveUp
<1>2. ASSUME NEW c \in Callers, EnterLoop(c) PROVE TypeOK'
  BY <1>2 DEF EnterLoop
<1>3. ASSUME NEW c \in Callers, Own(c) PROVE TypeOK'
  BY <1>3 DEF Own
<1>4. ASSUME NEW c \in Callers, Load(c) PROVE TypeOK'
  BY <1>4 DEF Load
<1>5. ASSUME NEW c \in Callers, TakeDuplicate(c) PROVE TypeOK'
  <2>1. /\ pc' \in [Callers -> States] /\ result' \in [Candidates -> Results]
        /\ ctok' \in [Callers -> Tokens \cup {None}]
        /\ missed' \in [Callers -> BOOLEAN] /\ seen' \in SUBSET Urls
    BY <1>5 DEF TakeDuplicate, LiveRecord
  <2>2. UNCHANGED <<claims, tok, next, ckey, curl, cancelled, engine, listed, history, recent>>
    BY <1>5 DEF TakeDuplicate
  <2>3. \A d \in Callers \ {c} : pc'[d] = pc[d] /\ ctok'[d] = ctok[d]
    BY <1>5 DEF TakeDuplicate
  <2>4. pc[c] # "idle" /\ pc'[c] = "told"
    BY <1>5 DEF TakeDuplicate, LiveRecord
  <2>. QED
    BY <2>1, <2>2, <2>3, <2>4
<1>6. ASSUME NEW c \in Callers, InheritFailure(c) PROVE TypeOK'
  BY <1>6 DEF InheritFailure
<1>7. ASSUME NEW c \in Callers, FindResidue(c) PROVE TypeOK'
  BY <1>7 DEF FindResidue
<1>8. ASSUME NEW c \in Callers, Attach(c) PROVE TypeOK'
  BY <1>8 DEF Attach
<1>9. ASSUME NEW c \in Callers, Discard(c) PROVE TypeOK'
  BY <1>9 DEF Discard
<1>10. ASSUME NEW c \in Callers, OwnerDuplicate(c) PROVE TypeOK'
  BY <1>10 DEF OwnerDuplicate
<1>11. ASSUME NEW c \in Callers, CandidateAdmits(c) PROVE TypeOK'
  BY <1>11 DEF CandidateAdmits
<1>12. ASSUME NEW c \in Callers, ExtensionAdmits(c) PROVE TypeOK'
  BY <1>12 DEF ExtensionAdmits
<1>13. ASSUME NEW c \in Callers, EngineAdds(c) PROVE TypeOK'
  BY <1>13 DEF EngineAdds
<1>14. ASSUME NEW c \in Callers, OwnerFails(c) PROVE TypeOK'
  BY <1>14 DEF OwnerFails
<1>15. ASSUME NEW c \in Callers, FinishAvailable(c) PROVE TypeOK'
  <2>. DEFINE r == [key |-> tok[ctok[c]].key, closed |-> TRUE,
                    avail |-> TRUE, live |-> TRUE]
  <2>1. ctok[c] \in Tokens /\ pc[c] # "idle" /\ pc'[c] = "told"
    BY <1>15 DEF FinishAvailable
  <2>2. r \in Claim
    BY <2>1
  <2>3. tok' \in [Tokens -> Claim]
    <3>1. tok' = [tok EXCEPT ![ctok[c]] = r]
      BY <1>15 DEF FinishAvailable
    <3>. QED
      BY <2>2, <3>1
  <2>4. recent' \in SUBSET Tokens
    BY <2>1, <1>15 DEF FinishAvailable
  <2>5. /\ pc' \in [Callers -> States] /\ result' \in [Candidates -> Results]
        /\ ctok' \in [Callers -> Tokens \cup {None}]
        /\ missed' \in [Callers -> BOOLEAN]
        /\ \A d \in Callers \ {c} : pc'[d] = pc[d] /\ ctok'[d] = ctok[d]
    BY <1>15 DEF FinishAvailable
  <2>6. UNCHANGED <<claims, next, ckey, curl, cancelled, seen, engine, listed, history>>
    BY <1>15 DEF FinishAvailable
  <2>. HIDE DEF r
  <2>. QED
    BY <2>1, <2>3, <2>4, <2>5, <2>6
<1>16. ASSUME NEW c \in Callers, ReleaseKey(c) PROVE TypeOK'
  BY <1>16 DEF ReleaseKey
<1>17. ASSUME NEW c \in Callers, CloseFailed(c) PROVE TypeOK'
  <2>1. ctok[c] \in Tokens /\ pc[c] # "idle" /\ pc'[c] = "told"
    BY <1>17 DEF CloseFailed
  <2>2. tok' \in [Tokens -> Claim]
    <3>1. tok' = [tok EXCEPT ![ctok[c]].closed = TRUE]
      BY <1>17 DEF CloseFailed
    <3>2. tok \in [Tokens -> Claim]
      OBVIOUS
    <3>. HIDE DEF Claim, Tokens, IInv, TypeOK
    <3>. QED
      BY <2>1, <3>1, <3>2, ClaimsChange
  <2>3. /\ pc' \in [Callers -> States] /\ result' \in [Candidates -> Results]
        /\ ctok' \in [Callers -> Tokens \cup {None}]
        /\ missed' \in [Callers -> BOOLEAN]
        /\ \A d \in Callers \ {c} : pc'[d] = pc[d] /\ ctok'[d] = ctok[d]
    BY <1>17 DEF CloseFailed
  <2>4. UNCHANGED <<claims, next, ckey, curl, cancelled, seen, engine, listed, history, recent>>
    BY <1>17 DEF CloseFailed
  <2>. QED
    BY <2>1, <2>2, <2>3, <2>4
<1>18. ASSUME NEW c \in Callers, NEW k \in Targets, NEW u \in Urls, Request(c, k, u) PROVE TypeOK'
  BY <1>18 DEF Request, Submit
<1>19. ASSUME NEW c \in Callers, NEW u \in Urls, SubmitCandidate(c, u) PROVE TypeOK'
  <2>1. /\ pc' \in [Callers -> States] /\ pc'[c] = "submitted"
        /\ ckey' \in [Callers -> Targets \cup {None}] /\ ckey'[c] = u
        /\ curl' \in [Callers -> Urls \cup {None}] /\ curl'[c] = u
        /\ u \in Targets
    BY <1>19 DEF SubmitCandidate, Submit, Targets
  <2>2. \A d \in Callers \ {c} :
          pc'[d] = pc[d] /\ ckey'[d] = ckey[d] /\ curl'[d] = curl[d]
    BY <1>19 DEF SubmitCandidate, Submit
  <2>3. UNCHANGED <<claims, tok, next, ctok, result, missed, cancelled, seen,
                    engine, listed, history, recent>>
    BY <1>19 DEF SubmitCandidate, Submit
  <2>. QED
    BY <2>1, <2>2, <2>3
<1>20. ASSUME NEW c \in Callers, NEW k \in Targets, Sweep(c, k) PROVE TypeOK'
  BY <1>20 DEF Sweep
<1>21. ASSUME NEW t \in Tokens, Expire(t) PROVE TypeOK'
  <2>1. tok' = [tok EXCEPT ![t].live = FALSE]
    BY <1>21 DEF Expire
  <2>2. tok' \in [Tokens -> Claim]
    <3>1. tok \in [Tokens -> Claim]
      OBVIOUS
    <3>. HIDE DEF Claim, Tokens, IInv, TypeOK
    <3>. QED
      BY <2>1, <3>1, ClaimsChange
  <2>3. UNCHANGED <<claims, next, pc, ckey, curl, ctok, result, missed, cancelled,
                    seen, engine, listed, history, recent>>
    BY <1>21 DEF Expire
  <2>. QED
    BY <2>2, <2>3
<1>22. ASSUME NEW row \in Targets \X Urls, RemoveRow(row) PROVE TypeOK'
  BY <1>22 DEF RemoveRow
<1>23. ASSUME NEW u \in Urls, RecordHistory(u) PROVE TypeOK'
  BY <1>23 DEF RecordHistory
<1>24. ASSUME NEW u \in Urls, RemoveHistory(u) PROVE TypeOK'
  BY <1>24 DEF RemoveHistory
<1>25. CASE StartBatch
  <2>1. RowUrls \subseteq Urls
    BY RowsHaveUrls
  <2>2. seen' \in SUBSET Urls
    BY <2>1, <1>25 DEF StartBatch
  <2>3. UNCHANGED <<claims, tok, next, pc, ckey, curl, ctok, result, missed,
                    cancelled, engine, listed, history, recent>>
    BY <1>25 DEF StartBatch
  <2>. QED
    BY <2>2, <2>3
<1>26. CASE CancelBatch
  BY <1>26 DEF CancelBatch
<1>27. CASE RefreshList
  <2>1. RowUrls \subseteq Urls
    BY RowsHaveUrls
  <2>2. listed' \in SUBSET Urls /\ recent' \in SUBSET Tokens
    BY <2>1, <1>27 DEF RefreshList
  <2>3. UNCHANGED <<claims, tok, next, pc, ckey, curl, ctok, result, missed,
                    cancelled, seen, engine, history>>
    BY <1>27 DEF RefreshList
  <2>. QED
    BY <2>2, <2>3
<1>28. CASE UNCHANGED vars
  BY <1>28 DEF vars
<1>. QED
  BY <1>1, <1>2, <1>3, <1>4, <1>5, <1>6, <1>7, <1>8, <1>9, <1>10, <1>11,
     <1>12, <1>13, <1>14, <1>15, <1>16, <1>17, <1>18, <1>19, <1>20, <1>21,
     <1>22, <1>23, <1>24, <1>25, <1>26, <1>27, <1>28
  DEF Next, CallerStep

\* Only the owner takes an open claim out of the map: sweepExpired and the
\* CompareAndDelete of a settled token never hit it.
LEMMA ClaimsHeldStep ==
  ASSUME IInv, [Next]_vars
  PROVE  ClaimsHeld'
<1>. USE TokensAssumption, CallersAssumption DEF IInv, TypeOK, ClaimsHeld, TokensKeyed,
  RecordsKept,
  Goto, Tell, CompareAndDelete, registry, request, world, batch, callers,
  Owning, Unsettled, Holding, Undecided, Tokens, Claim, Fresh, States, Results,
  Callers
<1>1. ASSUME NEW c \in Callers, GiveUp(c) PROVE ClaimsHeld'
  BY <1>1 DEF GiveUp
<1>2. ASSUME NEW c \in Callers, EnterLoop(c) PROVE ClaimsHeld'
  BY <1>2 DEF EnterLoop
<1>3. ASSUME NEW c \in Callers, Own(c) PROVE ClaimsHeld'
  BY <1>3 DEF Own
<1>4. ASSUME NEW c \in Callers, Load(c) PROVE ClaimsHeld'
  BY <1>4 DEF Load
<1>5. ASSUME NEW c \in Callers, TakeDuplicate(c) PROVE ClaimsHeld'
  BY <1>5 DEF TakeDuplicate
<1>6. ASSUME NEW c \in Callers, InheritFailure(c) PROVE ClaimsHeld'
  BY <1>6 DEF InheritFailure
<1>7. ASSUME NEW c \in Callers, FindResidue(c) PROVE ClaimsHeld'
  BY <1>7 DEF FindResidue
<1>8. ASSUME NEW c \in Callers, Attach(c) PROVE ClaimsHeld'
  BY <1>8 DEF Attach
<1>9. ASSUME NEW c \in Callers, Discard(c) PROVE ClaimsHeld'
  BY <1>9 DEF Discard
<1>10. ASSUME NEW c \in Callers, OwnerDuplicate(c) PROVE ClaimsHeld'
  BY <1>10 DEF OwnerDuplicate
<1>11. ASSUME NEW c \in Callers, CandidateAdmits(c) PROVE ClaimsHeld'
  BY <1>11 DEF CandidateAdmits
<1>12. ASSUME NEW c \in Callers, ExtensionAdmits(c) PROVE ClaimsHeld'
  BY <1>12 DEF ExtensionAdmits
<1>13. ASSUME NEW c \in Callers, EngineAdds(c) PROVE ClaimsHeld'
  BY <1>13 DEF EngineAdds
<1>14. ASSUME NEW c \in Callers, OwnerFails(c) PROVE ClaimsHeld'
  BY <1>14 DEF OwnerFails
<1>15. ASSUME NEW c \in Callers, FinishAvailable(c) PROVE ClaimsHeld'
  BY <1>15 DEF FinishAvailable
<1>16. ASSUME NEW c \in Callers, ReleaseKey(c) PROVE ClaimsHeld'
  BY <1>16 DEF ReleaseKey
<1>17. ASSUME NEW c \in Callers, CloseFailed(c) PROVE ClaimsHeld'
  BY <1>17 DEF CloseFailed
<1>18. ASSUME NEW c \in Callers, NEW k \in Targets, NEW u \in Urls, Request(c, k, u) PROVE ClaimsHeld'
  BY <1>18 DEF Request, Submit
<1>19. ASSUME NEW c \in Callers, NEW u \in Urls, SubmitCandidate(c, u) PROVE ClaimsHeld'
  BY <1>19 DEF SubmitCandidate, Submit
<1>20. ASSUME NEW c \in Callers, NEW k \in Targets, Sweep(c, k) PROVE ClaimsHeld'
  BY <1>20 DEF Sweep
<1>21. ASSUME NEW t \in Tokens, Expire(t) PROVE ClaimsHeld'
  BY <1>21 DEF Expire
<1>22. ASSUME NEW row \in Targets \X Urls, RemoveRow(row) PROVE ClaimsHeld'
  BY <1>22 DEF RemoveRow
<1>23. ASSUME NEW u \in Urls, RecordHistory(u) PROVE ClaimsHeld'
  BY <1>23 DEF RecordHistory
<1>24. ASSUME NEW u \in Urls, RemoveHistory(u) PROVE ClaimsHeld'
  BY <1>24 DEF RemoveHistory
<1>25. CASE StartBatch
  BY <1>25 DEF StartBatch
<1>26. CASE CancelBatch
  BY <1>26 DEF CancelBatch
<1>27. CASE RefreshList
  BY <1>27 DEF RefreshList
<1>28. CASE UNCHANGED vars
  BY <1>28 DEF vars
<1>. QED
  BY <1>1, <1>2, <1>3, <1>4, <1>5, <1>6, <1>7, <1>8, <1>9, <1>10, <1>11,
     <1>12, <1>13, <1>14, <1>15, <1>16, <1>17, <1>18, <1>19, <1>20, <1>21,
     <1>22, <1>23, <1>24, <1>25, <1>26, <1>27, <1>28
  DEF Next, CallerStep

\* A token is created for one target and stays with it.
LEMMA TokensKeyedStep ==
  ASSUME IInv, [Next]_vars
  PROVE  TokensKeyed'
<1>. USE TokensAssumption, CallersAssumption DEF IInv, TypeOK, ClaimsHeld, TokensKeyed,
  RecordsKept,
  Goto, Tell, CompareAndDelete, registry, request, world, batch, callers,
  Owning, Unsettled, Holding, Undecided, Tokens, Claim, Fresh, States, Results,
  Callers
<1>1. ASSUME NEW c \in Callers, GiveUp(c) PROVE TokensKeyed'
  BY <1>1 DEF GiveUp
<1>2. ASSUME NEW c \in Callers, EnterLoop(c) PROVE TokensKeyed'
  BY <1>2 DEF EnterLoop
<1>3. ASSUME NEW c \in Callers, Own(c) PROVE TokensKeyed'
  BY <1>3 DEF Own
<1>4. ASSUME NEW c \in Callers, Load(c) PROVE TokensKeyed'
  BY <1>4 DEF Load
<1>5. ASSUME NEW c \in Callers, TakeDuplicate(c) PROVE TokensKeyed'
  BY <1>5 DEF TakeDuplicate
<1>6. ASSUME NEW c \in Callers, InheritFailure(c) PROVE TokensKeyed'
  BY <1>6 DEF InheritFailure
<1>7. ASSUME NEW c \in Callers, FindResidue(c) PROVE TokensKeyed'
  BY <1>7 DEF FindResidue
<1>8. ASSUME NEW c \in Callers, Attach(c) PROVE TokensKeyed'
  BY <1>8 DEF Attach
<1>9. ASSUME NEW c \in Callers, Discard(c) PROVE TokensKeyed'
  BY <1>9 DEF Discard
<1>10. ASSUME NEW c \in Callers, OwnerDuplicate(c) PROVE TokensKeyed'
  BY <1>10 DEF OwnerDuplicate
<1>11. ASSUME NEW c \in Callers, CandidateAdmits(c) PROVE TokensKeyed'
  BY <1>11 DEF CandidateAdmits
<1>12. ASSUME NEW c \in Callers, ExtensionAdmits(c) PROVE TokensKeyed'
  BY <1>12 DEF ExtensionAdmits
<1>13. ASSUME NEW c \in Callers, EngineAdds(c) PROVE TokensKeyed'
  BY <1>13 DEF EngineAdds
<1>14. ASSUME NEW c \in Callers, OwnerFails(c) PROVE TokensKeyed'
  BY <1>14 DEF OwnerFails
<1>15. ASSUME NEW c \in Callers, FinishAvailable(c) PROVE TokensKeyed'
  BY <1>15 DEF FinishAvailable
<1>16. ASSUME NEW c \in Callers, ReleaseKey(c) PROVE TokensKeyed'
  BY <1>16 DEF ReleaseKey
<1>17. ASSUME NEW c \in Callers, CloseFailed(c) PROVE TokensKeyed'
  BY <1>17 DEF CloseFailed
<1>18. ASSUME NEW c \in Callers, NEW k \in Targets, NEW u \in Urls, Request(c, k, u) PROVE TokensKeyed'
  BY <1>18 DEF Request, Submit
<1>19. ASSUME NEW c \in Callers, NEW u \in Urls, SubmitCandidate(c, u) PROVE TokensKeyed'
  BY <1>19 DEF SubmitCandidate, Submit
<1>20. ASSUME NEW c \in Callers, NEW k \in Targets, Sweep(c, k) PROVE TokensKeyed'
  BY <1>20 DEF Sweep
<1>21. ASSUME NEW t \in Tokens, Expire(t) PROVE TokensKeyed'
  BY <1>21 DEF Expire
<1>22. ASSUME NEW row \in Targets \X Urls, RemoveRow(row) PROVE TokensKeyed'
  BY <1>22 DEF RemoveRow
<1>23. ASSUME NEW u \in Urls, RecordHistory(u) PROVE TokensKeyed'
  BY <1>23 DEF RecordHistory
<1>24. ASSUME NEW u \in Urls, RemoveHistory(u) PROVE TokensKeyed'
  BY <1>24 DEF RemoveHistory
<1>25. CASE StartBatch
  BY <1>25 DEF StartBatch
<1>26. CASE CancelBatch
  BY <1>26 DEF CancelBatch
<1>27. CASE RefreshList
  BY <1>27 DEF RefreshList
<1>28. CASE UNCHANGED vars
  BY <1>28 DEF vars
<1>. QED
  BY <1>1, <1>2, <1>3, <1>4, <1>5, <1>6, <1>7, <1>8, <1>9, <1>10, <1>11,
     <1>12, <1>13, <1>14, <1>15, <1>16, <1>17, <1>18, <1>19, <1>20, <1>21,
     <1>22, <1>23, <1>24, <1>25, <1>26, <1>27, <1>28
  DEF Next, CallerStep

\* A record is found under its target for as long as it is live: no sweep, no
\* discard and no release takes it away before (add_deduper.go:85,117,167).
LEMMA RecordsKeptStep ==
  ASSUME IInv, [Next]_vars
  PROVE  RecordsKept'
<1>. USE TokensAssumption, CallersAssumption DEF IInv, TypeOK, ClaimsHeld, TokensKeyed,
  RecordsKept,
  Goto, Tell, CompareAndDelete, registry, request, world, batch, callers,
  Owning, Unsettled, Holding, Undecided, Tokens, Claim, Fresh, States, Results,
  Callers
<1>1. ASSUME NEW c \in Callers, GiveUp(c) PROVE RecordsKept'
  BY <1>1 DEF GiveUp
<1>2. ASSUME NEW c \in Callers, EnterLoop(c) PROVE RecordsKept'
  BY <1>2 DEF EnterLoop
<1>3. ASSUME NEW c \in Callers, Own(c) PROVE RecordsKept'
  BY <1>3 DEF Own
<1>4. ASSUME NEW c \in Callers, Load(c) PROVE RecordsKept'
  BY <1>4 DEF Load
<1>5. ASSUME NEW c \in Callers, TakeDuplicate(c) PROVE RecordsKept'
  BY <1>5 DEF TakeDuplicate
<1>6. ASSUME NEW c \in Callers, InheritFailure(c) PROVE RecordsKept'
  BY <1>6 DEF InheritFailure
<1>7. ASSUME NEW c \in Callers, FindResidue(c) PROVE RecordsKept'
  BY <1>7 DEF FindResidue
<1>8. ASSUME NEW c \in Callers, Attach(c) PROVE RecordsKept'
  BY <1>8 DEF Attach
<1>9. ASSUME NEW c \in Callers, Discard(c) PROVE RecordsKept'
  BY <1>9 DEF Discard
<1>10. ASSUME NEW c \in Callers, OwnerDuplicate(c) PROVE RecordsKept'
  BY <1>10 DEF OwnerDuplicate
<1>11. ASSUME NEW c \in Callers, CandidateAdmits(c) PROVE RecordsKept'
  BY <1>11 DEF CandidateAdmits
<1>12. ASSUME NEW c \in Callers, ExtensionAdmits(c) PROVE RecordsKept'
  BY <1>12 DEF ExtensionAdmits
<1>13. ASSUME NEW c \in Callers, EngineAdds(c) PROVE RecordsKept'
  BY <1>13 DEF EngineAdds
<1>14. ASSUME NEW c \in Callers, OwnerFails(c) PROVE RecordsKept'
  BY <1>14 DEF OwnerFails
<1>15. ASSUME NEW c \in Callers, FinishAvailable(c) PROVE RecordsKept'
  BY <1>15 DEF FinishAvailable
<1>16. ASSUME NEW c \in Callers, ReleaseKey(c) PROVE RecordsKept'
  BY <1>16 DEF ReleaseKey
<1>17. ASSUME NEW c \in Callers, CloseFailed(c) PROVE RecordsKept'
  BY <1>17 DEF CloseFailed
<1>18. ASSUME NEW c \in Callers, NEW k \in Targets, NEW u \in Urls, Request(c, k, u) PROVE RecordsKept'
  BY <1>18 DEF Request, Submit
<1>19. ASSUME NEW c \in Callers, NEW u \in Urls, SubmitCandidate(c, u) PROVE RecordsKept'
  BY <1>19 DEF SubmitCandidate, Submit
<1>20. ASSUME NEW c \in Callers, NEW k \in Targets, Sweep(c, k) PROVE RecordsKept'
  BY <1>20 DEF Sweep
<1>21. ASSUME NEW t \in Tokens, Expire(t) PROVE RecordsKept'
  BY <1>21 DEF Expire
<1>22. ASSUME NEW row \in Targets \X Urls, RemoveRow(row) PROVE RecordsKept'
  BY <1>22 DEF RemoveRow
<1>23. ASSUME NEW u \in Urls, RecordHistory(u) PROVE RecordsKept'
  BY <1>23 DEF RecordHistory
<1>24. ASSUME NEW u \in Urls, RemoveHistory(u) PROVE RecordsKept'
  BY <1>24 DEF RemoveHistory
<1>25. CASE StartBatch
  BY <1>25 DEF StartBatch
<1>26. CASE CancelBatch
  BY <1>26 DEF CancelBatch
<1>27. CASE RefreshList
  BY <1>27 DEF RefreshList
<1>28. CASE UNCHANGED vars
  BY <1>28 DEF vars
<1>. QED
  BY <1>1, <1>2, <1>3, <1>4, <1>5, <1>6, <1>7, <1>8, <1>9, <1>10, <1>11,
     <1>12, <1>13, <1>14, <1>15, <1>16, <1>17, <1>18, <1>19, <1>20, <1>21,
     <1>22, <1>23, <1>24, <1>25, <1>26, <1>27, <1>28
  DEF Next, CallerStep

\* A URL leaves the protection of its record only when the list shows it.
LEMMA CoveredStep ==
  ASSUME IInv, [Next]_vars
  PROVE  Covered'
<1>. USE TokensAssumption, CallersAssumption DEF IInv, TypeOK, ClaimsHeld, TokensKeyed,
  RecordsKept, Covered, RowUrls,
  Goto, Tell, CompareAndDelete, registry, request, world, batch, callers,
  Owning, Unsettled, Holding, Undecided, Tokens, Claim, Fresh, States, Results,
  Callers
<1>1. ASSUME NEW c \in Callers, GiveUp(c) PROVE Covered'
  BY <1>1 DEF GiveUp
<1>2. ASSUME NEW c \in Callers, EnterLoop(c) PROVE Covered'
  BY <1>2 DEF EnterLoop
<1>3. ASSUME NEW c \in Callers, Own(c) PROVE Covered'
  <2>. SUFFICES ASSUME NEW k \in Targets, <<k, k>> \in engine, k \notin listed
                PROVE  /\ claims'[k] # None
                       /\ \/ tok'[claims'[k]].live /\ claims'[k] \in recent
                          \/ \E d \in Callers : pc'[d] = "okay" /\ ctok'[d] = claims'[k]
    <3>1. UNCHANGED <<engine, listed, recent>>
      BY <1>3 DEF Own
    <3>. QED
      BY <3>1
  <2>1. /\ claims[k] # None
        /\ \/ tok[claims[k]].live /\ claims[k] \in recent
           \/ \E d \in Callers : pc[d] = "okay" /\ ctok[d] = claims[k]
    OBVIOUS
  <2>2. k # ckey[c] /\ claims'[k] = claims[k]
    BY <2>1, <1>3 DEF Own
  <2>3. claims[k] \in Tokens /\ claims[k] # next /\ tok'[claims[k]] = tok[claims[k]]
    BY <2>1, <1>3 DEF Own
  <2>4. \A d \in Callers : pc[d] = "okay" => pc'[d] = "okay" /\ ctok'[d] = ctok[d]
    BY <1>3 DEF Own
  <2>. QED
    BY <2>1, <2>2, <2>3, <2>4, <1>3 DEF Own
<1>4. ASSUME NEW c \in Callers, Load(c) PROVE Covered'
  BY <1>4 DEF Load
<1>5. ASSUME NEW c \in Callers, TakeDuplicate(c) PROVE Covered'
  <2>. SUFFICES ASSUME NEW k \in Targets, <<k, k>> \in engine, k \notin listed
                PROVE  /\ claims'[k] # None
                       /\ \/ tok'[claims'[k]].live /\ claims'[k] \in recent
                          \/ \E d \in Callers : pc'[d] = "okay" /\ ctok'[d] = claims'[k]
    <3>1. UNCHANGED <<engine, listed, recent>>
      BY <1>5 DEF TakeDuplicate
    <3>. QED
      BY <3>1
  <2>1. /\ claims[k] # None
        /\ \/ tok[claims[k]].live /\ claims[k] \in recent
           \/ \E d \in Callers : pc[d] = "okay" /\ ctok[d] = claims[k]
    OBVIOUS
  <2>2. \A d \in Callers : pc[d] = "okay" => pc'[d] = "okay" /\ ctok'[d] = ctok[d]
    BY <1>5 DEF TakeDuplicate, LiveRecord
  <2>. QED
    BY <2>1, <2>2, <1>5 DEF TakeDuplicate
<1>6. ASSUME NEW c \in Callers, InheritFailure(c) PROVE Covered'
  BY <1>6 DEF InheritFailure
<1>7. ASSUME NEW c \in Callers, FindResidue(c) PROVE Covered'
  BY <1>7 DEF FindResidue
<1>8. ASSUME NEW c \in Callers, Attach(c) PROVE Covered'
  BY <1>8 DEF Attach
<1>9. ASSUME NEW c \in Callers, Discard(c) PROVE Covered'
  <2>. SUFFICES ASSUME NEW k \in Targets, <<k, k>> \in engine, k \notin listed
                PROVE  /\ claims'[k] # None
                       /\ \/ tok'[claims'[k]].live /\ claims'[k] \in recent
                          \/ \E d \in Callers : pc'[d] = "okay" /\ ctok'[d] = claims'[k]
    <3>1. UNCHANGED <<engine, listed, recent>>
      BY <1>9 DEF Discard
    <3>. QED
      BY <3>1
  <2>1. /\ claims[k] # None
        /\ \/ tok[claims[k]].live /\ claims[k] \in recent
           \/ \E d \in Callers : pc[d] = "okay" /\ ctok[d] = claims[k]
    OBVIOUS
  <2>2. claims[k] # ctok[c]
    BY <2>1, <1>9 DEF Discard
  <2>3. claims'[k] = claims[k]
    BY <2>2, <1>9 DEF Discard
  <2>4. \A d \in Callers : pc[d] = "okay" => pc'[d] = "okay" /\ ctok'[d] = ctok[d]
    BY <1>9 DEF Discard
  <2>. QED
    BY <2>1, <2>3, <2>4, <1>9 DEF Discard
<1>10. ASSUME NEW c \in Callers, OwnerDuplicate(c) PROVE Covered'
  BY <1>10 DEF OwnerDuplicate
<1>11. ASSUME NEW c \in Callers, CandidateAdmits(c) PROVE Covered'
  BY <1>11 DEF CandidateAdmits
<1>12. ASSUME NEW c \in Callers, ExtensionAdmits(c) PROVE Covered'
  BY <1>12 DEF ExtensionAdmits
<1>13. ASSUME NEW c \in Callers, EngineAdds(c) PROVE Covered'
  BY <1>13 DEF EngineAdds
<1>14. ASSUME NEW c \in Callers, OwnerFails(c) PROVE Covered'
  BY <1>14 DEF OwnerFails
<1>15. ASSUME NEW c \in Callers, FinishAvailable(c) PROVE Covered'
  BY <1>15 DEF FinishAvailable
<1>16. ASSUME NEW c \in Callers, ReleaseKey(c) PROVE Covered'
  <2>. SUFFICES ASSUME NEW k \in Targets, <<k, k>> \in engine, k \notin listed
                PROVE  /\ claims'[k] # None
                       /\ \/ tok'[claims'[k]].live /\ claims'[k] \in recent
                          \/ \E d \in Callers : pc'[d] = "okay" /\ ctok'[d] = claims'[k]
    <3>1. UNCHANGED <<engine, listed, recent>>
      BY <1>16 DEF ReleaseKey
    <3>. QED
      BY <3>1
  <2>1. /\ claims[k] # None
        /\ \/ tok[claims[k]].live /\ claims[k] \in recent
           \/ \E d \in Callers : pc[d] = "okay" /\ ctok[d] = claims[k]
    OBVIOUS
  <2>2. claims[k] # ctok[c]
    <3>1. ~tok[ctok[c]].closed /\ ~tok[ctok[c]].live
      BY <1>16 DEF ReleaseKey
    <3>2. \A d \in Callers : pc[d] = "okay" => ctok[d] # ctok[c]
      BY <1>16 DEF ReleaseKey
    <3>. QED
      BY <2>1, <3>1, <3>2
  <2>3. claims'[k] = claims[k]
    BY <2>2, <1>16 DEF ReleaseKey
  <2>4. \A d \in Callers : pc[d] = "okay" => pc'[d] = "okay" /\ ctok'[d] = ctok[d]
    BY <1>16 DEF ReleaseKey
  <2>. QED
    BY <2>1, <2>3, <2>4, <1>16 DEF ReleaseKey
<1>17. ASSUME NEW c \in Callers, CloseFailed(c) PROVE Covered'
  BY <1>17 DEF CloseFailed
<1>18. ASSUME NEW c \in Callers, NEW k \in Targets, NEW u \in Urls, Request(c, k, u) PROVE Covered'
  BY <1>18 DEF Request, Submit
<1>19. ASSUME NEW c \in Callers, NEW u \in Urls, SubmitCandidate(c, u) PROVE Covered'
  BY <1>19 DEF SubmitCandidate, Submit
<1>20. ASSUME NEW c \in Callers, NEW k \in Targets, Sweep(c, k) PROVE Covered'
  BY <1>20 DEF Sweep
<1>21. ASSUME NEW t \in Tokens, Expire(t) PROVE Covered'
  BY <1>21 DEF Expire
<1>22. ASSUME NEW row \in Targets \X Urls, RemoveRow(row) PROVE Covered'
  BY <1>22 DEF RemoveRow
<1>23. ASSUME NEW u \in Urls, RecordHistory(u) PROVE Covered'
  BY <1>23 DEF RecordHistory
<1>24. ASSUME NEW u \in Urls, RemoveHistory(u) PROVE Covered'
  BY <1>24 DEF RemoveHistory
<1>25. CASE StartBatch
  BY <1>25 DEF StartBatch
<1>26. CASE CancelBatch
  BY <1>26 DEF CancelBatch
<1>27. CASE RefreshList
  BY <1>27 DEF RefreshList
<1>28. CASE UNCHANGED vars
  BY <1>28 DEF vars
<1>. QED
  BY <1>1, <1>2, <1>3, <1>4, <1>5, <1>6, <1>7, <1>8, <1>9, <1>10, <1>11,
     <1>12, <1>13, <1>14, <1>15, <1>16, <1>17, <1>18, <1>19, <1>20, <1>21,
     <1>22, <1>23, <1>24, <1>25, <1>26, <1>27, <1>28
  DEF Next, CallerStep

\* A mark of the batch stays unless the owner that made it fails.
LEMMA MarkedStep ==
  ASSUME IInv, [Next]_vars
  PROVE  Marked'
<1>. USE TokensAssumption, CallersAssumption DEF IInv, TypeOK, ClaimsHeld, TokensKeyed,
  RecordsKept, Marked, OneAddPerWindow,
  Goto, Tell, CompareAndDelete, registry, request, world, batch, callers,
  Owning, Unsettled, Holding, Undecided, Tokens, Claim, Fresh, States, Results,
  Callers
<1>1. ASSUME NEW c \in Callers, GiveUp(c) PROVE Marked'
  BY <1>1 DEF GiveUp
<1>2. ASSUME NEW c \in Callers, EnterLoop(c) PROVE Marked'
  BY <1>2 DEF EnterLoop
<1>3. ASSUME NEW c \in Callers, Own(c) PROVE Marked'
  BY <1>3 DEF Own
<1>4. ASSUME NEW c \in Callers, Load(c) PROVE Marked'
  BY <1>4 DEF Load
<1>5. ASSUME NEW c \in Callers, TakeDuplicate(c) PROVE Marked'
  BY <1>5 DEF TakeDuplicate
<1>6. ASSUME NEW c \in Callers, InheritFailure(c) PROVE Marked'
  BY <1>6 DEF InheritFailure
<1>7. ASSUME NEW c \in Callers, FindResidue(c) PROVE Marked'
  BY <1>7 DEF FindResidue
<1>8. ASSUME NEW c \in Callers, Attach(c) PROVE Marked'
  BY <1>8 DEF Attach
<1>9. ASSUME NEW c \in Callers, Discard(c) PROVE Marked'
  BY <1>9 DEF Discard
<1>10. ASSUME NEW c \in Callers, OwnerDuplicate(c) PROVE Marked'
  BY <1>10 DEF OwnerDuplicate
<1>11. ASSUME NEW c \in Callers, CandidateAdmits(c) PROVE Marked'
  BY <1>11 DEF CandidateAdmits
<1>12. ASSUME NEW c \in Callers, ExtensionAdmits(c) PROVE Marked'
  BY <1>12 DEF ExtensionAdmits
<1>13. ASSUME NEW c \in Callers, EngineAdds(c) PROVE Marked'
  BY <1>13 DEF EngineAdds
<1>14. ASSUME NEW c \in Callers, OwnerFails(c) PROVE Marked'
  BY <1>14 DEF OwnerFails
<1>15. ASSUME NEW c \in Callers, FinishAvailable(c) PROVE Marked'
  BY <1>15 DEF FinishAvailable
<1>16. ASSUME NEW c \in Callers, ReleaseKey(c) PROVE Marked'
  BY <1>16 DEF ReleaseKey
<1>17. ASSUME NEW c \in Callers, CloseFailed(c) PROVE Marked'
  BY <1>17 DEF CloseFailed
<1>18. ASSUME NEW c \in Callers, NEW k \in Targets, NEW u \in Urls, Request(c, k, u) PROVE Marked'
  BY <1>18 DEF Request, Submit
<1>19. ASSUME NEW c \in Callers, NEW u \in Urls, SubmitCandidate(c, u) PROVE Marked'
  BY <1>19 DEF SubmitCandidate, Submit
<1>20. ASSUME NEW c \in Callers, NEW k \in Targets, Sweep(c, k) PROVE Marked'
  BY <1>20 DEF Sweep
<1>21. ASSUME NEW t \in Tokens, Expire(t) PROVE Marked'
  BY <1>21 DEF Expire
<1>22. ASSUME NEW row \in Targets \X Urls, RemoveRow(row) PROVE Marked'
  BY <1>22 DEF RemoveRow
<1>23. ASSUME NEW u \in Urls, RecordHistory(u) PROVE Marked'
  BY <1>23 DEF RecordHistory
<1>24. ASSUME NEW u \in Urls, RemoveHistory(u) PROVE Marked'
  BY <1>24 DEF RemoveHistory
<1>25. CASE StartBatch
  BY <1>25 DEF StartBatch
<1>26. CASE CancelBatch
  BY <1>26 DEF CancelBatch
<1>27. CASE RefreshList
  BY <1>27 DEF RefreshList
<1>28. CASE UNCHANGED vars
  BY <1>28 DEF vars
<1>. QED
  BY <1>1, <1>2, <1>3, <1>4, <1>5, <1>6, <1>7, <1>8, <1>9, <1>10, <1>11,
     <1>12, <1>13, <1>14, <1>15, <1>16, <1>17, <1>18, <1>19, <1>20, <1>21,
     <1>22, <1>23, <1>24, <1>25, <1>26, <1>27, <1>28
  DEF Next, CallerStep

\* While an owner is on its way to the engine, no record of its target appears
\* and no sibling is told of it.
LEMMA OneAddPerWindowStep ==
  ASSUME IInv, [Next]_vars
  PROVE  OneAddPerWindow'
<1>. USE TokensAssumption, CallersAssumption DEF IInv, TypeOK, ClaimsHeld, TokensKeyed,
  RecordsKept, Marked, OneAddPerWindow, Present,
  Goto, Tell, CompareAndDelete, registry, request, world, batch, callers,
  Owning, Unsettled, Holding, Undecided, Tokens, Claim, Fresh, States, Results,
  Callers
<1>1. ASSUME NEW c \in Callers, GiveUp(c) PROVE OneAddPerWindow'
  BY <1>1 DEF GiveUp
<1>2. ASSUME NEW c \in Callers, EnterLoop(c) PROVE OneAddPerWindow'
  BY <1>2 DEF EnterLoop
<1>3. ASSUME NEW c \in Callers, Own(c) PROVE OneAddPerWindow'
  BY <1>3 DEF Own
<1>4. ASSUME NEW c \in Callers, Load(c) PROVE OneAddPerWindow'
  BY <1>4 DEF Load
<1>5. ASSUME NEW c \in Callers, TakeDuplicate(c) PROVE OneAddPerWindow'
  <2>. SUFFICES ASSUME NEW e \in Callers, pc'[e] = "engine"
                PROVE  /\ \A t \in Tokens : tok'[t].live => tok'[t].key # ckey'[e]
                       /\ e \in Candidates =>
                            \A d \in Candidates : curl'[d] = curl'[e] =>
                              result'[d] \notin {"added", "coalesced"}
    OBVIOUS
  <2>1. pc[e] = "engine" /\ e # c
    BY <1>5 DEF TakeDuplicate, LiveRecord
  <2>2. UNCHANGED <<tok, ckey, curl>>
    BY <1>5 DEF TakeDuplicate
  <2>3. tok[ctok[c]].live /\ tok[ctok[c]].key = ckey[c] /\ ctok[c] \in Tokens
    BY <1>5 DEF TakeDuplicate, LiveRecord
  <2>4. ckey[c] # ckey[e]
    BY <2>1, <2>3
  <2>5. \A d \in Candidates \ {c} : result'[d] = result[d]
    BY <1>5 DEF TakeDuplicate
  <2>6. c \in Candidates /\ e \in Candidates => curl[c] # curl[e]
    BY <2>4
  <2>. QED
    BY <2>1, <2>2, <2>5, <2>6
<1>6. ASSUME NEW c \in Callers, InheritFailure(c) PROVE OneAddPerWindow'
  BY <1>6 DEF InheritFailure
<1>7. ASSUME NEW c \in Callers, FindResidue(c) PROVE OneAddPerWindow'
  BY <1>7 DEF FindResidue
<1>8. ASSUME NEW c \in Callers, Attach(c) PROVE OneAddPerWindow'
  BY <1>8 DEF Attach
<1>9. ASSUME NEW c \in Callers, Discard(c) PROVE OneAddPerWindow'
  BY <1>9 DEF Discard
<1>10. ASSUME NEW c \in Callers, OwnerDuplicate(c) PROVE OneAddPerWindow'
  BY <1>10 DEF OwnerDuplicate
<1>11. ASSUME NEW c \in Callers, CandidateAdmits(c) PROVE OneAddPerWindow'
  BY <1>11 DEF CandidateAdmits
<1>12. ASSUME NEW c \in Callers, ExtensionAdmits(c) PROVE OneAddPerWindow'
  BY <1>12 DEF ExtensionAdmits
<1>13. ASSUME NEW c \in Callers, EngineAdds(c) PROVE OneAddPerWindow'
  BY <1>13 DEF EngineAdds
<1>14. ASSUME NEW c \in Callers, OwnerFails(c) PROVE OneAddPerWindow'
  BY <1>14 DEF OwnerFails
<1>15. ASSUME NEW c \in Callers, FinishAvailable(c) PROVE OneAddPerWindow'
  BY <1>15 DEF FinishAvailable
<1>16. ASSUME NEW c \in Callers, ReleaseKey(c) PROVE OneAddPerWindow'
  BY <1>16 DEF ReleaseKey
<1>17. ASSUME NEW c \in Callers, CloseFailed(c) PROVE OneAddPerWindow'
  BY <1>17 DEF CloseFailed
<1>18. ASSUME NEW c \in Callers, NEW k \in Targets, NEW u \in Urls, Request(c, k, u) PROVE OneAddPerWindow'
  BY <1>18 DEF Request, Submit
<1>19. ASSUME NEW c \in Callers, NEW u \in Urls, SubmitCandidate(c, u) PROVE OneAddPerWindow'
  BY <1>19 DEF SubmitCandidate, Submit
<1>20. ASSUME NEW c \in Callers, NEW k \in Targets, Sweep(c, k) PROVE OneAddPerWindow'
  BY <1>20 DEF Sweep
<1>21. ASSUME NEW t \in Tokens, Expire(t) PROVE OneAddPerWindow'
  BY <1>21 DEF Expire
<1>22. ASSUME NEW row \in Targets \X Urls, RemoveRow(row) PROVE OneAddPerWindow'
  BY <1>22 DEF RemoveRow
<1>23. ASSUME NEW u \in Urls, RecordHistory(u) PROVE OneAddPerWindow'
  BY <1>23 DEF RecordHistory
<1>24. ASSUME NEW u \in Urls, RemoveHistory(u) PROVE OneAddPerWindow'
  BY <1>24 DEF RemoveHistory
<1>25. CASE StartBatch
  BY <1>25 DEF StartBatch
<1>26. CASE CancelBatch
  BY <1>26 DEF CancelBatch
<1>27. CASE RefreshList
  BY <1>27 DEF RefreshList
<1>28. CASE UNCHANGED vars
  BY <1>28 DEF vars
<1>. QED
  BY <1>1, <1>2, <1>3, <1>4, <1>5, <1>6, <1>7, <1>8, <1>9, <1>10, <1>11,
     <1>12, <1>13, <1>14, <1>15, <1>16, <1>17, <1>18, <1>19, <1>20, <1>21,
     <1>22, <1>23, <1>24, <1>25, <1>26, <1>27, <1>28
  DEF Next, CallerStep

\* An extension owner that finds no row its list has finds none at all.
LEMMA NoSecondExtensionAddStep ==
  ASSUME IInv, [Next]_vars
  PROVE  NoSecondExtensionAdd'
<1>. USE TokensAssumption, CallersAssumption DEF IInv, TypeOK, ClaimsHeld, TokensKeyed,
  RecordsKept, Covered, NoSecondExtensionAdd,
  Goto, Tell, CompareAndDelete, registry, request, world, batch, callers,
  Owning, Unsettled, Holding, Undecided, Tokens, Claim, Fresh, States, Results,
  Callers
<1>1. ASSUME NEW c \in Callers, GiveUp(c) PROVE NoSecondExtensionAdd'
  BY <1>1 DEF GiveUp
<1>2. ASSUME NEW c \in Callers, EnterLoop(c) PROVE NoSecondExtensionAdd'
  BY <1>2 DEF EnterLoop
<1>3. ASSUME NEW c \in Callers, Own(c) PROVE NoSecondExtensionAdd'
  BY <1>3 DEF Own
<1>4. ASSUME NEW c \in Callers, Load(c) PROVE NoSecondExtensionAdd'
  BY <1>4 DEF Load
<1>5. ASSUME NEW c \in Callers, TakeDuplicate(c) PROVE NoSecondExtensionAdd'
  BY <1>5 DEF TakeDuplicate
<1>6. ASSUME NEW c \in Callers, InheritFailure(c) PROVE NoSecondExtensionAdd'
  BY <1>6 DEF InheritFailure
<1>7. ASSUME NEW c \in Callers, FindResidue(c) PROVE NoSecondExtensionAdd'
  BY <1>7 DEF FindResidue
<1>8. ASSUME NEW c \in Callers, Attach(c) PROVE NoSecondExtensionAdd'
  BY <1>8 DEF Attach
<1>9. ASSUME NEW c \in Callers, Discard(c) PROVE NoSecondExtensionAdd'
  BY <1>9 DEF Discard
<1>10. ASSUME NEW c \in Callers, OwnerDuplicate(c) PROVE NoSecondExtensionAdd'
  BY <1>10 DEF OwnerDuplicate
<1>11. ASSUME NEW c \in Callers, CandidateAdmits(c) PROVE NoSecondExtensionAdd'
  BY <1>11 DEF CandidateAdmits
<1>12. ASSUME NEW c \in Callers, ExtensionAdmits(c) PROVE NoSecondExtensionAdd'
  <2>. SUFFICES ASSUME NEW e \in Extensions, pc'[e] = "engine", ~missed'[e]
                PROVE  <<ckey[e], ckey[e]>> \notin engine
    BY <1>12 DEF ExtensionAdmits
  <2>1. CASE e # c
    BY <2>1, <1>12 DEF ExtensionAdmits
  <2>2. CASE e = c
    <3>1. pc[c] = "own" /\ ckey[c] \in Targets /\ ckey[c] \notin listed
      BY <2>2, <1>12 DEF ExtensionAdmits
    <3>2. claims[ckey[c]] = ctok[c] /\ ~tok[ctok[c]].closed /\ ~tok[ctok[c]].live
      BY <3>1
    <3>3. \A d \in Callers : pc[d] = "okay" => ctok[d] # ctok[c]
      BY <3>1
    <3>. QED
      BY <2>2, <3>1, <3>2, <3>3
  <2>. QED
    BY <2>1, <2>2
<1>13. ASSUME NEW c \in Callers, EngineAdds(c) PROVE NoSecondExtensionAdd'
  BY <1>13 DEF EngineAdds
<1>14. ASSUME NEW c \in Callers, OwnerFails(c) PROVE NoSecondExtensionAdd'
  BY <1>14 DEF OwnerFails
<1>15. ASSUME NEW c \in Callers, FinishAvailable(c) PROVE NoSecondExtensionAdd'
  BY <1>15 DEF FinishAvailable
<1>16. ASSUME NEW c \in Callers, ReleaseKey(c) PROVE NoSecondExtensionAdd'
  BY <1>16 DEF ReleaseKey
<1>17. ASSUME NEW c \in Callers, CloseFailed(c) PROVE NoSecondExtensionAdd'
  BY <1>17 DEF CloseFailed
<1>18. ASSUME NEW c \in Callers, NEW k \in Targets, NEW u \in Urls, Request(c, k, u) PROVE NoSecondExtensionAdd'
  BY <1>18 DEF Request, Submit
<1>19. ASSUME NEW c \in Callers, NEW u \in Urls, SubmitCandidate(c, u) PROVE NoSecondExtensionAdd'
  BY <1>19 DEF SubmitCandidate, Submit
<1>20. ASSUME NEW c \in Callers, NEW k \in Targets, Sweep(c, k) PROVE NoSecondExtensionAdd'
  BY <1>20 DEF Sweep
<1>21. ASSUME NEW t \in Tokens, Expire(t) PROVE NoSecondExtensionAdd'
  BY <1>21 DEF Expire
<1>22. ASSUME NEW row \in Targets \X Urls, RemoveRow(row) PROVE NoSecondExtensionAdd'
  BY <1>22 DEF RemoveRow
<1>23. ASSUME NEW u \in Urls, RecordHistory(u) PROVE NoSecondExtensionAdd'
  BY <1>23 DEF RecordHistory
<1>24. ASSUME NEW u \in Urls, RemoveHistory(u) PROVE NoSecondExtensionAdd'
  BY <1>24 DEF RemoveHistory
<1>25. CASE StartBatch
  BY <1>25 DEF StartBatch
<1>26. CASE CancelBatch
  BY <1>26 DEF CancelBatch
<1>27. CASE RefreshList
  BY <1>27 DEF RefreshList
<1>28. CASE UNCHANGED vars
  BY <1>28 DEF vars
<1>. QED
  BY <1>1, <1>2, <1>3, <1>4, <1>5, <1>6, <1>7, <1>8, <1>9, <1>10, <1>11,
     <1>12, <1>13, <1>14, <1>15, <1>16, <1>17, <1>18, <1>19, <1>20, <1>21,
     <1>22, <1>23, <1>24, <1>25, <1>26, <1>27, <1>28
  DEF Next, CallerStep

\* The inductive invariant holds in every reachable state.
THEOREM Inductive == Spec => []IInv
<1>1. Init => IInv
  <2>. SUFFICES ASSUME Init PROVE IInv
    OBVIOUS
  <2>. USE TokensAssumption, CallersAssumption DEF Init, Holding, Owning, Unsettled,
       Callers, Tokens, States, Results
  <2>1. TypeOK
    <3>1. Fresh(None) \in Claim
      BY DEF Fresh, Claim
    <3>2. tok \in [Tokens -> Claim]
      BY <3>1
    <3>3. pc \in [Callers -> States] /\ result \in [Candidates -> Results]
      OBVIOUS
    <3>4. /\ claims \in [Targets -> Tokens \cup {None}]
          /\ next \in 1..(MaxTokens + 1)
          /\ ckey \in [Callers -> Targets \cup {None}]
          /\ curl \in [Callers -> Urls \cup {None}]
          /\ ctok \in [Callers -> Tokens \cup {None}]
      OBVIOUS
    <3>5. missed \in [Callers -> BOOLEAN] /\ cancelled \in BOOLEAN
      OBVIOUS
    <3>6. /\ seen \in SUBSET Urls /\ engine \in SUBSET (Targets \X Urls)
          /\ listed \in SUBSET Urls /\ history \in SUBSET Urls
          /\ recent \in SUBSET Tokens
      OBVIOUS
    <3>7. \A c \in Callers : pc[c] = "idle"
      OBVIOUS
    <3>. QED
      BY <3>2, <3>3, <3>4, <3>5, <3>6, <3>7 DEF TypeOK
  <2>2. ClaimsHeld /\ TokensKeyed /\ RecordsKept
    BY DEF ClaimsHeld, TokensKeyed, RecordsKept, Fresh
  <2>3. Covered /\ Marked /\ NoSecondExtensionAdd /\ OneAddPerWindow
    BY DEF Covered, Marked, NoSecondExtensionAdd, OneAddPerWindow
  <2>. QED
    BY <2>1, <2>2, <2>3 DEF IInv
<1>2. IInv /\ [Next]_vars => IInv'
  BY TypeOKStep, ClaimsHeldStep, TokensKeyedStep, RecordsKeptStep, CoveredStep,
     MarkedStep, NoSecondExtensionAddStep, OneAddPerWindowStep DEF IInv
<1>. QED
  BY <1>1, <1>2, PTL DEF Spec

\* At most one caller per target is between acquire and the end of its engine
\* call (add_deduper.go:44-47).
THEOREM OneEngineCallPerTarget == Spec => []SingleFlight
<1>1. IInv => SingleFlight
  BY DEF IInv, ClaimsHeld, SingleFlight, InFlight, Owning, Unsettled
<1>. QED
  BY <1>1, Inductive, PTL

\* A target goes to the engine once per admission window, and a URL once per
\* batch that knows of it, whatever is removed, expires or is read stale
\* (add_deduper.go:10-13,44-47, models.go:133-135).
THEOREM WindowAddsOnce == Spec => []OneAddPerWindow
<1>1. IInv => OneAddPerWindow
  BY DEF IInv
<1>. QED
  BY <1>1, Inductive, PTL

\* An extension request that sees the whole list never adds a URL again under
\* the target it was added under, given that a record outlives every list
\* built before it (add_deduper.go:10-13).
THEOREM ExtensionAddsOnce == Spec => []NoSecondExtensionAdd
<1>1. IInv => NoSecondExtensionAdd
  BY DEF IInv
<1>. QED
  BY <1>1, Inductive, PTL

=============================================================================
