--------------------------- MODULE IndexerProofs ---------------------------
(***************************************************************************)
(* What the index says of adapters that ask at most once per block each,    *)
(* and what readers that page through it while it grows come away with:     *)
(* for any number of adapters, questions, blocks, pages and orders of       *)
(* events.                                                                  *)
(***************************************************************************)
EXTENDS IndexerReaders, FiniteSetTheorems, TLAPS

Index == [Adapters -> [Times -> Questions \cup {None}]]
DisputeRows == [at : Times \X Questions, question : Questions, round : Rounds]

Store ==
  [Market : [Questions -> MarketRows \cup {None}],
   ResolutionRequest : [Questions -> [Rounds -> RequestRows \cup {None}]],
   RequestIndex : Index,
   Dispute : SUBSET DisputeRows]

ChainOK ==
  /\ now \in Times
  /\ stage \in [Questions -> {"none", "requested", "proposed", "voting", "settled", "resolved"}]
  /\ asked \in [Questions -> [Rounds -> 0..MaxTime]]
  /\ strikes \in [Questions -> Rounds]
  /\ old \subseteq Questions
TypeOK == db \in Store /\ ChainOK

\* The entry of an adapter and a timestamp is that of the one question initialised then, so
\* a request finds its own question, or none and derives it.
EntrySound(i, a, t) == i[a][t] # None => Adapter[i[a][t]] = a /\ asked[i[a][t]][0] = t
IndexSound ==
  /\ \A a \in Adapters, t \in Times : EntrySound(db.RequestIndex, a, t)
  /\ \A q \in Questions, r \in Rounds :
       asked[q][r] # 0 => db.RequestIndex[Adapter[q]][asked[q][r]] \in {None, q}

\* A question on the chain has its market, in the round of its strikes, and a live request;
\* one that is not has neither.
Begun(q) ==
  /\ db.Market[q] # None /\ db.Market[q].currentRound = strikes[q]
  /\ db.ResolutionRequest[q][strikes[q]] # None
  /\ asked[q][0] # 0 /\ asked[q][strikes[q]] # 0
NotBegun(q) ==
  /\ db.Market[q] = None /\ strikes[q] = 0 /\ q \notin old
  /\ \A r \in Rounds : asked[q][r] = 0
Stands(q) ==
  /\ IF stage[q] = "none" THEN NotBegun(q) ELSE Begun(q)
  /\ q \in old => strikes[q] = 1
QuestionsFollowed ==
  \A q \in Questions : Stands(q)

IInv == TypeOK /\ IndexSound /\ QuestionsFollowed /\ DisputesJoin /\ LifecycleFollowed
-----------------------------------------------------------------------------
LEMMA InitInv == Init => IInv
<1> SUFFICES ASSUME Init PROVE IInv
  OBVIOUS
<1> USE IndexerAssumption DEF IndexerAssumption, Init, Times
<1>1. db \in Store
  BY DEF Store, Index
<1>2. TypeOK
  BY <1>1 DEF TypeOK, ChainOK, Rounds
<1>3. IndexSound /\ QuestionsFollowed
  BY DEF IndexSound, EntrySound, QuestionsFollowed, Stands, NotBegun, Rounds
<1>4. DisputesJoin /\ LifecycleFollowed
  BY DEF DisputesJoin, LifecycleFollowed, QuestionFollowed
<1>5. QED
  BY <1>2, <1>3, <1>4 DEF IInv


\* Mapping an event to its question: the index and the derivation agree.
LEMMA JoinedSelf ==
  ASSUME IInv, NEW q \in Questions, NEW r \in Rounds, asked[q][r] # 0
  PROVE  Joined(db, q, asked[q][r]) = q
  BY DEF IInv, IndexSound, Joined

\* What a transaction of question q leaves: its market m, its rows, the disputes d.
Leaves(q, m, rows, d) ==
  /\ m \in MarketRows /\ rows \in [Rounds -> RequestRows \cup {None}]
  /\ db' = [Market |-> [db.Market EXCEPT ![q] = m],
            ResolutionRequest |-> [db.ResolutionRequest EXCEPT ![q] = rows],
            RequestIndex |-> db.RequestIndex,
            Dispute |-> d]

\* A row written over the live one of q is of the same request.
SameRequest(q, row) == row.requestTimestamp = db.ResolutionRequest[q][strikes[q]].requestTimestamp

LEMMA Begins ==
  ASSUME IInv, NEW q \in Questions, stage[q] # "none"
  PROVE  /\ Known(db, q) /\ Round(db, q) = strikes[q] /\ Live(db, q) # None
         /\ db.Market[q] \in MarketRows /\ db.ResolutionRequest[q][strikes[q]] \in RequestRows
         /\ Joined(db, q, Current(q)) = q
         /\ strikes[q] \in Rounds /\ asked[q][0] # 0 /\ asked[q][strikes[q]] # 0
<1> USE NoneAssumption
<1>1. strikes[q] \in Rounds /\ Begun(q)
  BY DEF IInv, TypeOK, ChainOK, QuestionsFollowed, Stands
<1>2. db.Market[q] \in MarketRows /\ db.ResolutionRequest[q][strikes[q]] \in RequestRows
  BY <1>1 DEF IInv, TypeOK, ChainOK, Store, Begun
<1>3. Joined(db, q, Current(q)) = q
  BY <1>1, JoinedSelf DEF Begun, Current
<1>4. QED
  BY <1>1, <1>2, <1>3 DEF Begun, Known, Round, Live


\* The two writes of the handlers, field by field.
LEMMA StatusSet ==
  ASSUME NEW e \in Store, NEW q \in Questions, e.Market[q] \in MarketRows, NEW s \in Statuses
  PROVE  SetStatus(e, q, s) =
           [Market |-> [e.Market EXCEPT ![q] = [status |-> s, currentRound |-> e.Market[q].currentRound]],
            ResolutionRequest |-> e.ResolutionRequest,
            RequestIndex |-> e.RequestIndex,
            Dispute |-> e.Dispute]
<1>1. [e.Market[q] EXCEPT !.status = s] = [status |-> s, currentRound |-> e.Market[q].currentRound]
  BY DEF MarketRows
<1>2. [e.Market EXCEPT ![q].status = s] =
        [e.Market EXCEPT ![q] = [status |-> s, currentRound |-> e.Market[q].currentRound]]
  BY <1>1
<1>3. SetStatus(e, q, s) = [e EXCEPT !.Market = [e.Market EXCEPT ![q].status = s]]
  BY DEF SetStatus
<1>4. QED
  BY <1>2, <1>3 DEF Store

LEMMA RequestSet ==
  ASSUME NEW e \in Store, NEW q \in Questions, NEW r \in Rounds, NEW row
  PROVE  SetRequest(e, q, r, row) =
           [Market |-> e.Market,
            ResolutionRequest |-> [e.ResolutionRequest EXCEPT ![q][r] = row],
            RequestIndex |-> e.RequestIndex,
            Dispute |-> e.Dispute]
<1>1. SetRequest(e, q, r, row) =
        [e EXCEPT !.ResolutionRequest = [e.ResolutionRequest EXCEPT ![q][r] = row]]
  BY DEF SetRequest
<1>2. QED
  BY <1>1 DEF Store

LEMMA LiveSet ==
  ASSUME NEW e \in Store, NEW q \in Questions, e.Market[q] \in MarketRows,
         Live(e, q) \in RequestRows, NEW s \in Statuses
  PROVE  SetLive(e, q, s) =
           [Market |-> e.Market,
            ResolutionRequest |->
              [e.ResolutionRequest EXCEPT ![q][Round(e, q)] =
                 [requestTimestamp |-> Live(e, q).requestTimestamp, status |-> s]],
            RequestIndex |-> e.RequestIndex,
            Dispute |-> e.Dispute]
<1> DEFINE r == Round(e, q)
           row == [requestTimestamp |-> Live(e, q).requestTimestamp, status |-> s]
<1>1. Live(e, q) = e.ResolutionRequest[q][r] /\ Live(e, q) # None /\ r \in Rounds
  BY NoneAssumption DEF Live, Round, MarketRows
<1>2. [e.ResolutionRequest[q][r] EXCEPT !.status = s] = row
  BY <1>1 DEF RequestRows
<1>3. SetLive(e, q, s) = [e EXCEPT !.ResolutionRequest = [e.ResolutionRequest EXCEPT ![q][r].status = s]]
  BY <1>1 DEF SetLive
<1>4. [e.ResolutionRequest EXCEPT ![q][r].status = s] = [e.ResolutionRequest EXCEPT ![q][r] = row]
  <2> HIDE DEF r
  <2> QED
    BY <1>2
<1>5. SetLive(e, q, s) = [e EXCEPT !.ResolutionRequest = [e.ResolutionRequest EXCEPT ![q][r] = row]]
  BY <1>3, <1>4
<1>6. QED
  BY <1>5 DEF Store

\* Setting one round of one question.
LEMMA OneRound ==
  ASSUME NEW f \in [Questions -> [Rounds -> RequestRows \cup {None}]],
         NEW q \in Questions, NEW r \in Rounds, NEW row \in RequestRows
  PROVE  /\ [f[q] EXCEPT ![r] = row] \in [Rounds -> RequestRows \cup {None}]
         /\ [f EXCEPT ![q][r] = row] = [f EXCEPT ![q] = [f[q] EXCEPT ![r] = row]]
         /\ [f EXCEPT ![q][r] = row] \in [Questions -> [Rounds -> RequestRows \cup {None}]]
  OBVIOUS

LEMMA ProposeLeaves ==
  ASSUME IInv, NEW q \in Questions, Propose(q)
  PROVE  \E row \in RequestRows :
           /\ row.status = "PROPOSED" /\ SameRequest(q, row)
           /\ Leaves(q, [status |-> "PROPOSED", currentRound |-> strikes[q]],
                     [db.ResolutionRequest[q] EXCEPT ![strikes[q]] = row], db.Dispute)
<1> DEFINE m == [status |-> "PROPOSED", currentRound |-> strikes[q]]
           row == [requestTimestamp |-> Live(db, q).requestTimestamp, status |-> "PROPOSED"]
           e == SetStatus(db, q, "PROPOSED")
<1>1. stage[q] # "none" /\ db' = ProposePrice(db, q, Current(q))
  BY DEF Propose
<1>2. db \in Store
  BY DEF IInv, TypeOK, ChainOK
<1>3. row \in RequestRows /\ m \in MarketRows /\ strikes[q] \in Rounds /\ SameRequest(q, row)
  BY <1>1, Begins DEF RequestRows, MarketRows, Statuses, Live, Round, SameRequest
<1>4. db' = SetRequest(e, q, strikes[q], row)
  BY <1>1, Begins DEF ProposePrice
<1>5. e = [Market |-> [db.Market EXCEPT ![q] = m],
           ResolutionRequest |-> db.ResolutionRequest,
           RequestIndex |-> db.RequestIndex,
           Dispute |-> db.Dispute]
  BY <1>1, <1>2, Begins, StatusSet DEF Statuses, Round
<1> HIDE DEF e, row, m
<1>6. e \in Store
  BY <1>2, <1>3, <1>5 DEF Store
<1>7. db' = [Market |-> [db.Market EXCEPT ![q] = m],
             ResolutionRequest |-> [db.ResolutionRequest EXCEPT ![q][strikes[q]] = row],
             RequestIndex |-> db.RequestIndex,
             Dispute |-> db.Dispute]
  BY <1>3, <1>4, <1>5, <1>6, RequestSet
<1>8. Leaves(q, m, [db.ResolutionRequest[q] EXCEPT ![strikes[q]] = row], db.Dispute)
  BY <1>2, <1>3, <1>7, OneRound DEF Leaves, Store
<1>9. row.status = "PROPOSED"
  BY DEF row
<1>10. QED
  BY <1>3, <1>8, <1>9 DEF m

\* What a dispute writes: the market and its live row are disputed, the record is the round's.
LEMMA DisputeWrites ==
  ASSUME IInv, NEW q \in Questions, stage[q] # "none", NEW id
  PROVE  \E row \in RequestRows :
           /\ row.status = "DISPUTED" /\ SameRequest(q, row)
           /\ [status |-> "DISPUTED", currentRound |-> strikes[q]] \in MarketRows
           /\ DisputePrice(db, q, Current(q), id) =
                [Market |-> [db.Market EXCEPT ![q] = [status |-> "DISPUTED", currentRound |-> strikes[q]]],
                 ResolutionRequest |-> [db.ResolutionRequest EXCEPT ![q][strikes[q]] = row],
                 RequestIndex |-> db.RequestIndex,
                 Dispute |-> db.Dispute \cup {[at |-> id, question |-> q, round |-> strikes[q]]}]
<1> DEFINE m == [status |-> "DISPUTED", currentRound |-> strikes[q]]
           row == [requestTimestamp |-> Live(db, q).requestTimestamp, status |-> "DISPUTED"]
           l == SetLive(db, q, "DISPUTED")
           e == SetStatus(l, q, "DISPUTED")
<1>2. db \in Store
  BY DEF IInv, TypeOK, ChainOK
<1>3. /\ row \in RequestRows /\ m \in MarketRows /\ strikes[q] \in Rounds
      /\ row.status = "DISPUTED" /\ SameRequest(q, row)
  BY Begins DEF RequestRows, MarketRows, Statuses, Live, Round, SameRequest
<1>4. DisputePrice(db, q, Current(q), id) =
        [e EXCEPT !.Dispute = @ \cup {[at |-> id, question |-> q, round |-> strikes[q]]}]
  BY Begins DEF DisputePrice
<1>5. l = [Market |-> db.Market,
           ResolutionRequest |-> [db.ResolutionRequest EXCEPT ![q][strikes[q]] = row],
           RequestIndex |-> db.RequestIndex,
           Dispute |-> db.Dispute]
  BY <1>2, Begins, LiveSet DEF Statuses, Live, Round
<1> HIDE DEF row, m, l
<1>6. l \in Store /\ l.Market[q] = db.Market[q] /\ l.Market[q] \in MarketRows
  BY <1>2, <1>3, <1>5, OneRound, Begins DEF Store
<1>7. e = [Market |-> [db.Market EXCEPT ![q] = m],
           ResolutionRequest |-> [db.ResolutionRequest EXCEPT ![q][strikes[q]] = row],
           RequestIndex |-> db.RequestIndex,
           Dispute |-> db.Dispute]
  <2>1. e = [Market |-> [l.Market EXCEPT ![q] = [status |-> "DISPUTED", currentRound |-> l.Market[q].currentRound]],
             ResolutionRequest |-> l.ResolutionRequest,
             RequestIndex |-> l.RequestIndex,
             Dispute |-> l.Dispute]
    <3> HIDE DEF e
    <3> QED
      BY <1>6, StatusSet DEF Statuses, e
  <2>2. l.Market[q].currentRound = strikes[q]
    BY <1>6, Begins DEF Round
  <2> HIDE DEF e
  <2> QED
    BY <1>5, <2>1, <2>2 DEF m
<1> HIDE DEF e
<1>8. QED
  BY <1>3, <1>4, <1>7 DEF m

\* What a settlement writes, be it of the live request or of the one a reset replaced.
LEMMA SettleLeaves ==
  ASSUME IInv, NEW q \in Questions, stage[q] # "none", NEW r \in Rounds, asked[q][r] # 0,
         db' = Settle(db, q, asked[q][r])
  PROVE  \E row \in RequestRows :
           /\ row.status = "RESOLVED" /\ SameRequest(q, row)
           /\ Leaves(q, db.Market[q], [db.ResolutionRequest[q] EXCEPT ![strikes[q]] = row], db.Dispute)
<1> DEFINE row == [requestTimestamp |-> Live(db, q).requestTimestamp, status |-> "RESOLVED"]
<1>1. db \in Store /\ db.Market[q] \in MarketRows /\ strikes[q] \in Rounds
  BY Begins DEF IInv, TypeOK, ChainOK
<1>2. row \in RequestRows /\ row.status = "RESOLVED" /\ SameRequest(q, row)
  BY Begins DEF RequestRows, Statuses, Live, Round, SameRequest
<1>3. db' = SetLive(db, q, "RESOLVED")
  BY Begins, JoinedSelf DEF Settle
<1>4. db' = [Market |-> db.Market,
             ResolutionRequest |-> [db.ResolutionRequest EXCEPT ![q][strikes[q]] = row],
             RequestIndex |-> db.RequestIndex,
             Dispute |-> db.Dispute]
  BY <1>1, <1>3, Begins, LiveSet DEF Statuses, Live, Round
<1> HIDE DEF row
<1>5. [db.Market EXCEPT ![q] = db.Market[q]] = db.Market
  BY <1>1 DEF Store
<1>6. Leaves(q, db.Market[q], [db.ResolutionRequest[q] EXCEPT ![strikes[q]] = row], db.Dispute)
  BY <1>1, <1>2, <1>4, <1>5, OneRound DEF Leaves, Store
<1>7. QED
  BY <1>2, <1>6

LEMMA ResolveLeaves ==
  ASSUME IInv, NEW q \in Questions, Resolve(q)
  PROVE  \E row \in RequestRows :
           /\ row.status = "RESOLVED" /\ SameRequest(q, row)
           /\ Leaves(q, [status |-> "RESOLVED", currentRound |-> strikes[q]],
                     [db.ResolutionRequest[q] EXCEPT ![strikes[q]] = row], db.Dispute)
<1> DEFINE m == [status |-> "RESOLVED", currentRound |-> strikes[q]]
           row == [requestTimestamp |-> Live(db, q).requestTimestamp, status |-> "RESOLVED"]
           e == SetStatus(db, q, "RESOLVED")
<1>1. stage[q] # "none" /\ db' = QuestionResolved(ConditionResolution(db, q), q)
  BY DEF Resolve
<1>2. db \in Store
  BY DEF IInv, TypeOK, ChainOK
<1>3. /\ row \in RequestRows /\ m \in MarketRows /\ strikes[q] \in Rounds
      /\ row.status = "RESOLVED" /\ SameRequest(q, row)
  BY <1>1, Begins DEF RequestRows, MarketRows, Statuses, Live, Round, SameRequest
<1>4. e = [Market |-> [db.Market EXCEPT ![q] = m],
           ResolutionRequest |-> db.ResolutionRequest,
           RequestIndex |-> db.RequestIndex,
           Dispute |-> db.Dispute]
  BY <1>1, <1>2, Begins, StatusSet DEF Statuses, Round
<1>5. ConditionResolution(db, q) = e
  BY <1>1, Begins DEF ConditionResolution, ConditionPreparation
<1> HIDE DEF e
<1>6. e \in Store /\ e.Market[q] = m /\ Known(e, q)
  BY <1>2, <1>3, <1>4, NoneAssumption DEF Store, Known
<1>7. SetStatus(e, q, "RESOLVED") = e
  <2>1. SetStatus(e, q, "RESOLVED") =
          [Market |-> [e.Market EXCEPT ![q] = [status |-> "RESOLVED", currentRound |-> e.Market[q].currentRound]],
           ResolutionRequest |-> e.ResolutionRequest,
           RequestIndex |-> e.RequestIndex,
           Dispute |-> e.Dispute]
    BY <1>3, <1>6, StatusSet DEF Statuses
  <2>2. [e.Market EXCEPT ![q] = [status |-> "RESOLVED", currentRound |-> e.Market[q].currentRound]] = e.Market
    BY <1>6 DEF Store
  <2> QED
    BY <1>6, <2>1, <2>2 DEF Store
<1>8. db' = SetLive(e, q, "RESOLVED")
  BY <1>1, <1>5, <1>6, <1>7 DEF QuestionResolved
<1>9. Live(e, q) = Live(db, q) /\ Round(e, q) = strikes[q]
  BY <1>1, <1>4, <1>6, Begins DEF Live, Round
<1>10. db' = [Market |-> [db.Market EXCEPT ![q] = m],
              ResolutionRequest |-> [db.ResolutionRequest EXCEPT ![q][strikes[q]] = row],
              RequestIndex |-> db.RequestIndex,
              Dispute |-> db.Dispute]
  <2>1. Live(e, q) \in RequestRows
    BY <1>1, <1>9, Begins DEF Live, Round
  <2>2. db' = [Market |-> e.Market,
               ResolutionRequest |-> [e.ResolutionRequest EXCEPT ![q][Round(e, q)] =
                  [requestTimestamp |-> Live(e, q).requestTimestamp, status |-> "RESOLVED"]],
               RequestIndex |-> e.RequestIndex,
               Dispute |-> e.Dispute]
    BY <1>3, <1>6, <1>8, <2>1, LiveSet DEF Statuses
  <2> HIDE DEF m
  <2> QED
    BY <1>4, <1>9, <2>2
<1> HIDE DEF m, row
<1>11. Leaves(q, m, [db.ResolutionRequest[q] EXCEPT ![strikes[q]] = row], db.Dispute)
  BY <1>2, <1>3, <1>10, OneRound DEF Leaves, Store
<1>12. QED
  BY <1>3, <1>11 DEF m

LEMMA SecondStrikeLeaves ==
  ASSUME IInv, NEW q \in Questions, SecondStrike(q)
  PROVE  \E row \in RequestRows :
           /\ row.status = "DISPUTED"
           /\ Leaves(q, [status |-> "DISPUTED", currentRound |-> 1],
                     [db.ResolutionRequest[q] EXCEPT ![1] = row], db.Dispute \cup {ThisDispute(q)})
<1>1. /\ stage[q] # "none" /\ strikes[q] = 1 /\ db \in Store /\ 1 \in Rounds
      /\ db' = DisputePrice(db, q, Current(q), <<now, q>>)
  BY DEF SecondStrike, IInv, TypeOK, ChainOK, Rounds
<1>2. PICK row \in RequestRows :
        /\ row.status = "DISPUTED"
        /\ [status |-> "DISPUTED", currentRound |-> 1] \in MarketRows
        /\ db' = [Market |-> [db.Market EXCEPT ![q] = [status |-> "DISPUTED", currentRound |-> 1]],
                  ResolutionRequest |-> [db.ResolutionRequest EXCEPT ![q][1] = row],
                  RequestIndex |-> db.RequestIndex,
                  Dispute |-> db.Dispute \cup {ThisDispute(q)}]
  BY <1>1, DisputeWrites DEF ThisDispute
<1>3. QED
  BY <1>1, <1>2, OneRound DEF Leaves, Store

LEMMA FirstStrikeLeaves ==
  ASSUME IInv, NEW q \in Questions, FirstStrike(q)
  PROVE  \E row \in RequestRows :
           /\ row.status = "DISPUTED" /\ SameRequest(q, row)
           /\ Leaves(q, [status |-> "RESET", currentRound |-> 1],
                     [[db.ResolutionRequest[q] EXCEPT ![0] = row] EXCEPT ![1] = Requested(now)],
                     db.Dispute \cup {ThisDispute(q)})
<1> DEFINE e == DisputePrice(db, q, Current(q), <<now, q>>)
           m == [status |-> "RESET", currentRound |-> 1]
           e1 == [e EXCEPT !.Market[q] = [status |-> "RESET", currentRound |-> @.currentRound + 1]]
<1>1. /\ stage[q] # "none" /\ strikes[q] = 0 /\ db \in Store /\ {0, 1} \subseteq Rounds
      /\ db' = QuestionReset(e, q, now)
  BY DEF FirstStrike, IInv, TypeOK, ChainOK, Rounds
<1>2. PICK row \in RequestRows :
        /\ row.status = "DISPUTED" /\ SameRequest(q, row)
        /\ [status |-> "DISPUTED", currentRound |-> 0] \in MarketRows
        /\ e = [Market |-> [db.Market EXCEPT ![q] = [status |-> "DISPUTED", currentRound |-> 0]],
                ResolutionRequest |-> [db.ResolutionRequest EXCEPT ![q][0] = row],
                RequestIndex |-> db.RequestIndex,
                Dispute |-> db.Dispute \cup {ThisDispute(q)}]
  BY <1>1, DisputeWrites DEF ThisDispute
<1>3. ThisDispute(q) \in DisputeRows
  BY <1>1 DEF IInv, TypeOK, ChainOK, ThisDispute, DisputeRows
<1> HIDE DEF e
<1>4. e \in Store
  BY <1>1, <1>2, <1>3, OneRound DEF Store
<1>5. e.Market[q] = [status |-> "DISPUTED", currentRound |-> 0] /\ Known(e, q) /\ Round(e, q) = 0
  BY <1>1, <1>2, NoneAssumption DEF Store, Known, Round
<1>6. m \in MarketRows
  BY DEF MarketRows, Statuses, Rounds
<1>7. db' = SetRequest(e1, q, 1, Requested(now))
  BY <1>1, <1>5 DEF QuestionReset
<1>8. e1 = [Market |-> [db.Market EXCEPT ![q] = m],
            ResolutionRequest |-> [db.ResolutionRequest EXCEPT ![q][0] = row],
            RequestIndex |-> db.RequestIndex,
            Dispute |-> db.Dispute \cup {ThisDispute(q)}]
  <2>1. [e.Market EXCEPT ![q] = [status |-> "RESET", currentRound |-> @.currentRound + 1]]
          = [e.Market EXCEPT ![q] = m]
    BY <1>4, <1>5 DEF Store
  <2>2. e1 = [e EXCEPT !.Market = [e.Market EXCEPT ![q] = m]]
    BY <2>1
  <2>3. [e.Market EXCEPT ![q] = m] = [db.Market EXCEPT ![q] = m]
    BY <1>1, <1>2 DEF Store
  <2> HIDE DEF e1, m
  <2>4. QED
    BY <1>2, <1>4, <2>2, <2>3 DEF Store
<1> HIDE DEF e1, m
<1>9. e1 \in Store
  BY <1>1, <1>3, <1>6, <1>8, OneRound DEF Store
<1>10. db' = [Market |-> [db.Market EXCEPT ![q] = m],
              ResolutionRequest |-> [[db.ResolutionRequest EXCEPT ![q][0] = row] EXCEPT ![q][1] = Requested(now)],
              RequestIndex |-> db.RequestIndex,
              Dispute |-> db.Dispute \cup {ThisDispute(q)}]
  <2>1. db' = [Market |-> e1.Market,
               ResolutionRequest |-> [e1.ResolutionRequest EXCEPT ![q][1] = Requested(now)],
               RequestIndex |-> e1.RequestIndex,
               Dispute |-> e1.Dispute]
    BY <1>1, <1>7, <1>9, RequestSet
  <2>2. QED
    BY <1>8, <2>1
<1>11. Requested(now) \in RequestRows
  BY IndexerAssumption DEF IInv, TypeOK, ChainOK, Times, Requested, RequestRows, Statuses, IndexerAssumption
<1>12. /\ [[db.ResolutionRequest EXCEPT ![q][0] = row] EXCEPT ![q][1] = Requested(now)]
            = [db.ResolutionRequest EXCEPT ![q] =
                 [[db.ResolutionRequest[q] EXCEPT ![0] = row] EXCEPT ![1] = Requested(now)]]
       /\ [[db.ResolutionRequest[q] EXCEPT ![0] = row] EXCEPT ![1] = Requested(now)]
            \in [Rounds -> RequestRows \cup {None}]
  BY <1>1, <1>11 DEF Store
<1>13. Leaves(q, m, [[db.ResolutionRequest[q] EXCEPT ![0] = row] EXCEPT ![1] = Requested(now)],
              db.Dispute \cup {ThisDispute(q)})
  BY <1>6, <1>10, <1>12 DEF Leaves
<1>14. QED
  BY <1>2, <1>13 DEF m

LEMMA InitialiseLeaves ==
  ASSUME IInv, NEW q \in Questions, Initialise(q)
  PROVE  db' = [Market |-> [db.Market EXCEPT ![q] = [status |-> "REQUESTED", currentRound |-> 0]],
                ResolutionRequest |-> [db.ResolutionRequest EXCEPT ![q] =
                  [db.ResolutionRequest[q] EXCEPT ![0] = Requested(now)]],
                RequestIndex |-> [db.RequestIndex EXCEPT ![Adapter[q]][now] = q],
                Dispute |-> db.Dispute]
<1> DEFINE open == [status |-> "OPEN", currentRound |-> 0]
           m == [status |-> "REQUESTED", currentRound |-> 0]
           e == ConditionPreparation(db, q)
           e1 == SetRequest(e, q, 0, Requested(now))
<1>1. db \in Store /\ ~Known(db, q) /\ 0 \in Rounds /\ db' = QuestionInitialized(e, q, now)
  BY DEF Initialise, IInv, TypeOK, ChainOK, QuestionsFollowed, Stands, NotBegun, Known, Rounds
<1>2. open \in MarketRows
  BY DEF MarketRows, Statuses, Rounds
<1>3. e = [Market |-> [db.Market EXCEPT ![q] = open],
           ResolutionRequest |-> db.ResolutionRequest,
           RequestIndex |-> db.RequestIndex,
           Dispute |-> db.Dispute]
  <2>1. e = [db EXCEPT !.Market = [db.Market EXCEPT ![q] = open]]
    BY <1>1 DEF ConditionPreparation
  <2> HIDE DEF e, open
  <2>2. QED
    BY <1>1, <2>1 DEF Store
<1> HIDE DEF e
<1>4. e \in Store /\ e.Market[q] = open /\ Known(e, q)
  BY <1>1, <1>2, <1>3, NoneAssumption DEF Store, Known
<1>5. [open EXCEPT !.status = "REQUESTED"] = m
  OBVIOUS
<1>6. db' = [e1 EXCEPT !.Market[q] = m, !.RequestIndex[Adapter[q]][now] = q]
  <2>1. db' = [e1 EXCEPT
                 !.Market[q] = [e.Market[q] EXCEPT
                   !.status = IF e.Market[q].status = "RESOLVED" THEN "RESOLVED" ELSE "REQUESTED"],
                 !.RequestIndex[Adapter[q]][now] = q]
    <3> HIDE DEF open, m
    <3> QED
      BY <1>1, <1>4 DEF QuestionInitialized
  <2>2. [e.Market[q] EXCEPT !.status = IF e.Market[q].status = "RESOLVED" THEN "RESOLVED" ELSE "REQUESTED"] = m
    BY <1>4, <1>5
  <2> HIDE DEF e1, m, open
  <2>3. QED
    BY <2>1, <2>2
<1>7. e1 = [Market |-> [db.Market EXCEPT ![q] = open],
            ResolutionRequest |-> [db.ResolutionRequest EXCEPT ![q][0] = Requested(now)],
            RequestIndex |-> db.RequestIndex,
            Dispute |-> db.Dispute]
  BY <1>1, <1>3, <1>4, RequestSet
<1> HIDE DEF e1, m, open
<1>8. db' = [Market |-> [[db.Market EXCEPT ![q] = open] EXCEPT ![q] = m],
             ResolutionRequest |-> [db.ResolutionRequest EXCEPT ![q][0] = Requested(now)],
             RequestIndex |-> [db.RequestIndex EXCEPT ![Adapter[q]][now] = q],
             Dispute |-> db.Dispute]
  BY <1>6, <1>7
<1>9. [[db.Market EXCEPT ![q] = open] EXCEPT ![q] = m] = [db.Market EXCEPT ![q] = m]
  BY <1>1 DEF Store
<1>10. Requested(now) \in RequestRows
  BY IndexerAssumption DEF IInv, TypeOK, ChainOK, Times, Requested, RequestRows, Statuses, IndexerAssumption
<1>11. QED
  BY <1>1, <1>8, <1>9, <1>10, OneRound DEF Store, m
-----------------------------------------------------------------------------
\* A transaction of question q leaves the other questions as they were, so of IInv only
\* what is about q is left to show.
LEMMA OthersStand ==
  ASSUME IInv, NEW q \in Questions, NEW p \in Questions, p # q,
         db'.Market[p] = db.Market[p], db'.ResolutionRequest[p] = db.ResolutionRequest[p],
         stage'[p] = stage[p], strikes'[p] = strikes[p], asked'[p] = asked[p],
         p \in old' <=> p \in old
  PROVE  Stands(p)' /\ QuestionFollowed(p)'
<1>1. Stands(p) /\ QuestionFollowed(p)
  BY DEF IInv, QuestionsFollowed, LifecycleFollowed
<1>2. Stands(p)'
  BY <1>1 DEF Stands, NotBegun, Begun
<1>3. QuestionFollowed(p)'
  BY <1>1 DEF QuestionFollowed, StatusOf, RowStatusOf, Live, Round
<1>4. QED
  BY <1>2, <1>3

Frame(q) ==
  \A p \in Questions \ {q} :
    stage'[p] = stage[p] /\ strikes'[p] = strikes[p] /\ asked'[p] = asked[p] /\ (p \in old' <=> p \in old)

LEMMA OnlyOne ==
  ASSUME IInv, NEW q \in Questions, NEW m \in MarketRows,
         NEW rows \in [Rounds -> RequestRows \cup {None}], NEW i \in Index,
         db' = [Market |-> [db.Market EXCEPT ![q] = m],
                ResolutionRequest |-> [db.ResolutionRequest EXCEPT ![q] = rows],
                RequestIndex |-> i,
                Dispute |-> disputed'],
         disputed' \subseteq DisputeRows, ChainOK', IndexSound',
         Frame(q), Stands(q)', QuestionFollowed(q)'
  PROVE  IInv'
<1>1. db \in Store
  BY DEF IInv, TypeOK
<1>2. db' \in Store
  BY <1>1 DEF Store
<1>3. ASSUME NEW p \in Questions PROVE Stands(p)' /\ QuestionFollowed(p)'
  <2>1. CASE p = q
    BY <2>1
  <2>2. CASE p # q
    <3>1. db'.Market[p] = db.Market[p] /\ db'.ResolutionRequest[p] = db.ResolutionRequest[p]
      BY <1>1, <2>2 DEF Store
    <3>2. QED
      BY <2>2, <3>1, OthersStand DEF Frame
  <2>3. QED
    BY <2>1, <2>2
<1>4. QED
  BY <1>2, <1>3 DEF IInv, TypeOK, QuestionsFollowed, DisputesJoin, LifecycleFollowed

LEMMA IndexKept ==
  ASSUME IndexSound, asked' = asked, db'.RequestIndex = db.RequestIndex
  PROVE  IndexSound'
  BY DEF IndexSound, EntrySound

\* The record of the row and the market of q after Leaves.
LEMMA AfterLeaves ==
  ASSUME IInv, NEW q \in Questions, NEW m, NEW rows, NEW d, Leaves(q, m, rows, d)
  PROVE  /\ db'.Market[q] = m /\ db'.ResolutionRequest[q] = rows /\ m # None
         /\ db'.RequestIndex = db.RequestIndex /\ db'.Dispute = d
         /\ db.RequestIndex \in Index
  BY NoneAssumption DEF IInv, TypeOK, Store, Leaves

Stages == {"none", "requested", "proposed", "voting", "settled", "resolved"}

\* The transactions that make no request: they move q to stage s and rewrite its market
\* and its live row, and what is left to show is that the two agree with s.
MovesRow(q, m, row, s) ==
  /\ stage[q] # "none" /\ m.currentRound = strikes[q] /\ row \in RequestRows
  /\ Leaves(q, m, [db.ResolutionRequest[q] EXCEPT ![strikes[q]] = row], disputed')
  /\ disputed' \subseteq DisputeRows
  /\ s \in Stages \ {"none"} /\ stage' = [stage EXCEPT ![q] = s]
  /\ UNCHANGED <<now, asked, strikes>>
  /\ old' = old \/ old' = old \ {q}

LEMMA RowStep ==
  ASSUME IInv, NEW q \in Questions, NEW m, NEW row, NEW s, MovesRow(q, m, row, s)
  PROVE  /\ db'.Market[q] = m /\ Live(db, q)' = row /\ stage'[q] = s
         /\ QuestionFollowed(q)' => IInv'
<1> DEFINE rows == [db.ResolutionRequest[q] EXCEPT ![strikes[q]] = row]
<1> USE DEF MovesRow
<1>1. ChainOK /\ ChainOK'
  BY DEF IInv, TypeOK, ChainOK, Stages
<1>2. rows[strikes[q]] = row /\ row # None /\ rows \in [Rounds -> RequestRows \cup {None}] /\ m \in MarketRows
  BY NoneAssumption, Begins DEF Leaves, IInv, TypeOK, Store
<1> HIDE DEF rows
<1>3. /\ db'.Market[q] = m /\ db'.ResolutionRequest[q] = rows /\ m # None
      /\ db'.RequestIndex = db.RequestIndex
      /\ db.RequestIndex \in Index
  BY AfterLeaves DEF rows
<1>4. IndexSound'
  BY <1>3, IndexKept DEF IInv
<1>5. stage'[q] = s /\ Frame(q)
  BY <1>1 DEF ChainOK, Frame
<1>6. Stands(q)'
  <2>1. Stands(q)
    BY DEF IInv, QuestionsFollowed
  <2>2. q \in old' => q \in old
    OBVIOUS
  <2>3. QED
    BY <1>2, <1>3, <1>5, <2>1, <2>2 DEF Stands, Begun
<1>7. QuestionFollowed(q)' => IInv'
  BY <1>1, <1>2, <1>3, <1>4, <1>5, <1>6, OnlyOne DEF Leaves, rows
<1>8. Live(db, q)' = row
  BY <1>2, <1>3 DEF Live, Round
<1>9. QED
  BY <1>3, <1>5, <1>7, <1>8

LEMMA DisputesTyped ==
  ASSUME IInv
  PROVE  /\ disputed \subseteq DisputeRows /\ db.Dispute = disputed
         /\ \A q \in Questions : ThisDispute(q) \in DisputeRows
  BY DEF IInv, TypeOK, ChainOK, Store, DisputesJoin, ThisDispute, DisputeRows

LEMMA ProposeStep ==
  ASSUME IInv, NEW q \in Questions, Propose(q)
  PROVE  IInv'
<1>1. PICK row \in RequestRows :
        /\ row.status = "PROPOSED"
        /\ Leaves(q, [status |-> "PROPOSED", currentRound |-> strikes[q]],
                  [db.ResolutionRequest[q] EXCEPT ![strikes[q]] = row], db.Dispute)
  BY ProposeLeaves
<1>2. /\ stage[q] # "none" /\ stage' = [stage EXCEPT ![q] = "proposed"]
      /\ UNCHANGED <<now, asked, strikes, old, disputed>>
  BY DEF Propose
<1> DEFINE m == [status |-> "PROPOSED", currentRound |-> strikes[q]]
<1>3. MovesRow(q, m, row, "proposed")
  BY <1>1, <1>2, DisputesTyped DEF MovesRow, Stages
<1>4. /\ db'.Market[q] = m /\ Live(db, q)' = row /\ stage'[q] = "proposed"
      /\ QuestionFollowed(q)' => IInv'
  <2> HIDE DEF m
  <2> QED
    BY <1>3, RowStep
<1>5. QED
  BY <1>1, <1>2, <1>4 DEF QuestionFollowed, StatusOf, RowStatusOf

LEMMA SecondStrikeStep ==
  ASSUME IInv, NEW q \in Questions, SecondStrike(q)
  PROVE  IInv'
<1>1. PICK row \in RequestRows :
        /\ row.status = "DISPUTED"
        /\ Leaves(q, [status |-> "DISPUTED", currentRound |-> 1],
                  [db.ResolutionRequest[q] EXCEPT ![1] = row], db.Dispute \cup {ThisDispute(q)})
  BY SecondStrikeLeaves
<1>2. /\ stage[q] # "none" /\ strikes[q] = 1 /\ stage' = [stage EXCEPT ![q] = "voting"]
      /\ disputed' = disputed \cup {ThisDispute(q)}
      /\ UNCHANGED <<now, asked, strikes, old>>
  BY DEF SecondStrike
<1> DEFINE m == [status |-> "DISPUTED", currentRound |-> 1]
<1>3. MovesRow(q, m, row, "voting")
  BY <1>1, <1>2, DisputesTyped DEF MovesRow, Stages
<1>4. /\ db'.Market[q] = m /\ Live(db, q)' = row /\ stage'[q] = "voting"
      /\ QuestionFollowed(q)' => IInv'
  <2> HIDE DEF m
  <2> QED
    BY <1>3, RowStep
<1>5. QED
  BY <1>1, <1>2, <1>4 DEF QuestionFollowed, StatusOf, RowStatusOf

LEMMA SettleLiveStep ==
  ASSUME IInv, NEW q \in Questions, SettleLive(q)
  PROVE  IInv'
<1>1. /\ stage[q] # "none" /\ stage' = [stage EXCEPT ![q] = "settled"]
      /\ db' = Settle(db, q, asked[q][strikes[q]])
      /\ UNCHANGED <<now, asked, strikes, old, disputed>>
  BY DEF SettleLive, Current
<1>2. PICK row \in RequestRows :
        Leaves(q, db.Market[q], [db.ResolutionRequest[q] EXCEPT ![strikes[q]] = row], db.Dispute)
  BY <1>1, Begins, SettleLeaves
<1>3. MovesRow(q, db.Market[q], row, "settled")
  BY <1>1, <1>2, Begins, DisputesTyped DEF MovesRow, Stages, Round
<1>4. stage'[q] = "settled" /\ (QuestionFollowed(q)' => IInv')
  BY <1>3, RowStep
<1>5. QED
  BY <1>4 DEF QuestionFollowed

LEMMA ResolveStep ==
  ASSUME IInv, NEW q \in Questions, Resolve(q)
  PROVE  IInv'
<1>1. PICK row \in RequestRows :
        /\ row.status = "RESOLVED"
        /\ Leaves(q, [status |-> "RESOLVED", currentRound |-> strikes[q]],
                  [db.ResolutionRequest[q] EXCEPT ![strikes[q]] = row], db.Dispute)
  BY ResolveLeaves
<1>2. /\ stage[q] # "none" /\ stage' = [stage EXCEPT ![q] = "resolved"]
      /\ UNCHANGED <<now, asked, strikes, old, disputed>>
  BY DEF Resolve
<1> DEFINE m == [status |-> "RESOLVED", currentRound |-> strikes[q]]
<1>3. MovesRow(q, m, row, "resolved")
  BY <1>1, <1>2, DisputesTyped DEF MovesRow, Stages
<1>4. /\ db'.Market[q] = m /\ Live(db, q)' = row /\ stage'[q] = "resolved"
      /\ QuestionFollowed(q)' => IInv'
  <2> HIDE DEF m
  <2> QED
    BY <1>3, RowStep
<1>5. QED
  BY <1>1, <1>2, <1>4 DEF QuestionFollowed, StatusOf, RowStatusOf

LEMMA SettleOldStep ==
  ASSUME IInv, NEW q \in Questions, SettleOld(q)
  PROVE  IInv'
<1>1. /\ q \in old /\ old' = old \ {q} /\ db' = Settle(db, q, asked[q][0])
      /\ UNCHANGED <<now, stage, asked, strikes, disputed>>
  BY DEF SettleOld
<1>2. stage[q] # "none" /\ strikes[q] = 1 /\ QuestionFollowed(q)
  BY <1>1 DEF IInv, QuestionsFollowed, LifecycleFollowed, Stands, NotBegun
<1>3. PICK row \in RequestRows :
        /\ row.status = "RESOLVED"
        /\ Leaves(q, db.Market[q], [db.ResolutionRequest[q] EXCEPT ![strikes[q]] = row], db.Dispute)
  <2>1. 0 \in Rounds /\ asked[q][0] # 0
    BY <1>2, Begins DEF Rounds
  <2>2. QED
    BY <1>1, <1>2, <2>1, SettleLeaves
<1>4. stage' = [stage EXCEPT ![q] = stage[q]] /\ stage[q] \in Stages \ {"none"}
  BY <1>1, <1>2 DEF IInv, TypeOK, ChainOK, Stages
<1>5. MovesRow(q, db.Market[q], row, stage[q])
  BY <1>1, <1>2, <1>3, <1>4, Begins, DisputesTyped DEF MovesRow, Round
<1>6. /\ db'.Market[q] = db.Market[q] /\ Live(db, q)' = row /\ stage'[q] = stage[q]
      /\ QuestionFollowed(q)' => IInv'
  BY <1>5, RowStep
<1>7. QED
  BY <1>1, <1>2, <1>3, <1>6 DEF QuestionFollowed, StatusOf, RowStatusOf

\* The two that make a request, each in a block of its own.
LEMMA InitialiseStep ==
  ASSUME IInv, ~SharedBlocks, NEW q \in Questions, Initialise(q)
  PROVE  IInv'
<1> DEFINE m == [status |-> "REQUESTED", currentRound |-> 0]
           rows == [db.ResolutionRequest[q] EXCEPT ![0] = Requested(now)]
           i == [db.RequestIndex EXCEPT ![Adapter[q]][now] = q]
<1>1. /\ stage[q] = "none" /\ stage' = [stage EXCEPT ![q] = "requested"]
      /\ asked' = [asked EXCEPT ![q][0] = now]
      /\ \A p \in Questions, r \in Rounds : Adapter[p] = Adapter[q] => asked[p][r] # now
      /\ UNCHANGED <<now, strikes, old, disputed>>
  BY DEF Initialise, AloneInBlock
<1>2. /\ db \in Store /\ ChainOK /\ NotBegun(q) /\ 0 \in Rounds /\ now \in Times /\ now \in Nat \ {0}
      /\ db.RequestIndex \in Index /\ Adapter[q] \in Adapters
  BY <1>1, IndexerAssumption
    DEF IInv, TypeOK, ChainOK, QuestionsFollowed, Stands, Rounds, Times, IndexerAssumption, Store, Adapters
<1>3. db' = [Market |-> [db.Market EXCEPT ![q] = m],
             ResolutionRequest |-> [db.ResolutionRequest EXCEPT ![q] = rows],
             RequestIndex |-> i,
             Dispute |-> disputed']
  BY <1>1, InitialiseLeaves, DisputesTyped
<1>4. Requested(now) \in RequestRows /\ Requested(now).status = "REQUESTED"
  BY <1>2, IndexerAssumption DEF Times, Requested, RequestRows, Statuses, IndexerAssumption
<1>5. m \in MarketRows /\ m # None /\ Requested(now) # None
  BY <1>4, NoneAssumption DEF MarketRows, Statuses, Rounds
<1>6. /\ rows \in [Rounds -> RequestRows \cup {None}] /\ rows[0] = Requested(now)
      /\ i \in Index /\ i[Adapter[q]][now] = q
      /\ \A a \in Adapters, t \in Times : a # Adapter[q] \/ t # now => i[a][t] = db.RequestIndex[a][t]
  BY <1>2, <1>4 DEF Store, Index
<1>7. ChainOK' /\ Frame(q)
  <2>1. [asked[q] EXCEPT ![0] = now] \in [Rounds -> 0..MaxTime]
    BY <1>2, IndexerAssumption DEF ChainOK, Times, IndexerAssumption
  <2>2. asked' \in [Questions -> [Rounds -> 0..MaxTime]]
    BY <1>1, <1>2, <2>1 DEF ChainOK
  <2>3. QED
    BY <1>1, <1>2, <2>2 DEF ChainOK, Frame
<1>8. db'.Market[q] = m /\ db'.ResolutionRequest[q] = rows /\ db'.RequestIndex = i
  BY <1>2, <1>3 DEF Store
<1>9. /\ stage'[q] = "requested" /\ strikes'[q] = 0 /\ q \notin old' /\ asked'[q][0] = now
      /\ \A r \in Rounds \ {0} : asked'[q][r] = 0
      /\ \A p \in Questions \ {q} : asked'[p] = asked[p]
  BY <1>1, <1>2 DEF ChainOK, NotBegun
<1>10. IndexSound'
  <2> HIDE DEF i
  <2>1. ASSUME NEW a \in Adapters, NEW t \in Times, i[a][t] # None
        PROVE  Adapter[i[a][t]] = a /\ asked'[i[a][t]][0] = t
    <3>1. CASE a = Adapter[q] /\ t = now
      BY <1>6, <1>9, <3>1
    <3>2. CASE a # Adapter[q] \/ t # now
      <4>1. i[a][t] = db.RequestIndex[a][t] /\ i[a][t] \in Questions
        BY <1>2, <1>6, <2>1, <3>2 DEF Index
      <4>2. Adapter[i[a][t]] = a /\ asked[i[a][t]][0] = t
        BY <2>1, <4>1 DEF IInv, IndexSound, EntrySound
      <4>3. i[a][t] # q
        BY <1>2, <2>1, <4>2, IndexerAssumption DEF NotBegun, Times, IndexerAssumption
      <4>4. QED
        BY <1>9, <4>1, <4>2, <4>3
    <3>3. QED
      BY <3>1, <3>2
  <2>2. ASSUME NEW p \in Questions, NEW r \in Rounds, asked'[p][r] # 0
        PROVE  i[Adapter[p]][asked'[p][r]] \in {None, p}
    <3>1. CASE p = q
      <4>1. r = 0 /\ asked'[p][r] = now
        BY <1>9, <2>2, <3>1
      <4>2. QED
        BY <1>6, <3>1, <4>1
    <3>2. CASE p # q
      <4>1. /\ asked'[p][r] = asked[p][r] /\ asked[p][r] \in Times /\ Adapter[p] \in Adapters
            /\ Adapter[p] # Adapter[q] \/ asked[p][r] # now
        BY <1>1, <1>2, <1>9, <2>2, <3>2, IndexerAssumption DEF ChainOK, Times, IndexerAssumption, Adapters
      <4>2. db.RequestIndex[Adapter[p]][asked[p][r]] \in {None, p}
        BY <2>2, <4>1 DEF IInv, IndexSound
      <4>3. QED
        BY <1>6, <4>1, <4>2
    <3>3. QED
      BY <3>1, <3>2
  <2>3. QED
    BY <1>8, <2>1, <2>2 DEF IndexSound, EntrySound
<1>11. Stands(q)'
  BY <1>2, <1>5, <1>6, <1>8, <1>9 DEF Stands, Begun
<1>12. QuestionFollowed(q)'
  BY <1>4, <1>6, <1>8, <1>9 DEF QuestionFollowed, StatusOf, RowStatusOf, Live, Round
<1>13. disputed' \subseteq DisputeRows
  BY <1>1, DisputesTyped
<1> HIDE DEF m, rows, i
<1>14. QED
  BY <1>3, <1>5, <1>6, <1>7, <1>10, <1>11, <1>12, <1>13, OnlyOne

LEMMA FirstStrikeStep ==
  ASSUME IInv, ~SharedBlocks, NEW q \in Questions, FirstStrike(q)
  PROVE  IInv'
<1> DEFINE m == [status |-> "RESET", currentRound |-> 1]
<1>1. PICK row \in RequestRows :
        Leaves(q, m, [[db.ResolutionRequest[q] EXCEPT ![0] = row] EXCEPT ![1] = Requested(now)],
               db.Dispute \cup {ThisDispute(q)})
  BY FirstStrikeLeaves
<1> DEFINE rows == [[db.ResolutionRequest[q] EXCEPT ![0] = row] EXCEPT ![1] = Requested(now)]
<1>2. /\ stage[q] # "none" /\ strikes[q] = 0 /\ stage' = [stage EXCEPT ![q] = "requested"]
      /\ strikes' = [strikes EXCEPT ![q] = 1] /\ asked' = [asked EXCEPT ![q][1] = now]
      /\ old' = old \cup {q} /\ disputed' = disputed \cup {ThisDispute(q)} /\ now' = now
      /\ \A p \in Questions, r \in Rounds : Adapter[p] = Adapter[q] => asked[p][r] # now
  BY DEF FirstStrike, AloneInBlock
<1>3. /\ db \in Store /\ ChainOK /\ Begun(q) /\ 1 \in Rounds /\ 0 \in Rounds /\ now \in Times
      /\ now \in Nat \ {0} /\ Adapter[q] \in Adapters
  BY <1>2, IndexerAssumption
    DEF IInv, TypeOK, ChainOK, QuestionsFollowed, Stands, Rounds, Times, IndexerAssumption, Adapters
<1>4. Requested(now) # None /\ Requested(now).status = "REQUESTED"
  BY <1>3, NoneAssumption, IndexerAssumption
    DEF Times, Requested, RequestRows, Statuses, IndexerAssumption
<1>5. m \in MarketRows /\ rows \in [Rounds -> RequestRows \cup {None}] /\ rows[1] = Requested(now)
  BY <1>1, <1>3 DEF Leaves, Store
<1> HIDE DEF rows
<1>6. /\ db'.Market[q] = m /\ db'.ResolutionRequest[q] = rows /\ m # None
      /\ db'.RequestIndex = db.RequestIndex /\ db'.Dispute = disputed'
      /\ db.RequestIndex \in Index
  BY <1>1, <1>2, AfterLeaves, DisputesTyped DEF rows
<1>7. ChainOK' /\ Frame(q)
  <2>1. [asked[q] EXCEPT ![1] = now] \in [Rounds -> 0..MaxTime]
    BY <1>3, IndexerAssumption DEF ChainOK, Times, IndexerAssumption
  <2>2. asked' \in [Questions -> [Rounds -> 0..MaxTime]]
    BY <1>2, <1>3, <2>1 DEF ChainOK
  <2>3. QED
    BY <1>2, <1>3, <2>2 DEF ChainOK, Frame
<1>8. /\ stage'[q] = "requested" /\ strikes'[q] = 1 /\ asked'[q][1] = now
      /\ asked'[q][0] = asked[q][0] /\ \A r \in Rounds : r = 0 \/ r = 1
      /\ \A p \in Questions \ {q} : asked'[p] = asked[p]
  BY <1>2, <1>3 DEF ChainOK, Rounds
<1> DEFINE i == db.RequestIndex
<1>9. i[Adapter[q]][now] = None
  <2>1. SUFFICES ASSUME i[Adapter[q]][now] # None PROVE FALSE
    OBVIOUS
  <2>2. /\ i[Adapter[q]][now] \in Questions /\ asked[i[Adapter[q]][now]][0] = now
        /\ Adapter[i[Adapter[q]][now]] = Adapter[q]
    BY <1>3, <1>6, <2>1 DEF IInv, IndexSound, EntrySound, Index
  <2>3. QED
    BY <1>2, <1>3, <2>2
<1>10. IndexSound'
  <2>1. ASSUME NEW a \in Adapters, NEW t \in Times, i[a][t] # None
        PROVE  Adapter[i[a][t]] = a /\ asked'[i[a][t]][0] = t
    <3>1. Adapter[i[a][t]] = a /\ asked[i[a][t]][0] = t /\ i[a][t] \in Questions
      BY <1>6, <2>1 DEF IInv, IndexSound, EntrySound, Index
    <3> HIDE DEF i
    <3>2. QED
      BY <1>8, <3>1
  <2>2. ASSUME NEW p \in Questions, NEW r \in Rounds, asked'[p][r] # 0
        PROVE  i[Adapter[p]][asked'[p][r]] \in {None, p}
    <3>1. CASE p = q /\ r = 1
      BY <1>8, <1>9, <3>1
    <3>2. CASE p # q \/ r = 0
      <4>1. asked'[p][r] = asked[p][r]
        BY <1>8, <3>2
      <4>2. QED
        BY <2>2, <4>1 DEF IInv, IndexSound
    <3>3. QED
      BY <1>8, <3>1, <3>2
  <2>3. QED
    BY <1>6, <2>1, <2>2 DEF IndexSound, EntrySound
<1>11. Stands(q)'
  BY <1>2, <1>3, <1>4, <1>5, <1>6, <1>8 DEF Stands, Begun
<1>12. QuestionFollowed(q)'
  BY <1>2, <1>4, <1>5, <1>6, <1>8 DEF QuestionFollowed, StatusOf, RowStatusOf, Live, Round
<1>13. disputed' \subseteq DisputeRows
  BY <1>2, DisputesTyped
<1>14. db' = [Market |-> [db.Market EXCEPT ![q] = m],
              ResolutionRequest |-> [db.ResolutionRequest EXCEPT ![q] = rows],
              RequestIndex |-> db.RequestIndex,
              Dispute |-> disputed']
  BY <1>1, <1>2, DisputesTyped DEF Leaves, rows
<1> HIDE DEF m
<1>15. QED
  BY <1>5, <1>6, <1>7, <1>10, <1>11, <1>12, <1>13, <1>14, OnlyOne

LEMMA QuietStep ==
  ASSUME IInv, NextBlock \/ UNCHANGED vars
  PROVE  IInv'
<1>1. UNCHANGED <<db, stage, asked, strikes, old, disputed>> /\ now' \in Times
  BY IndexerAssumption DEF NextBlock, vars, oracle, IInv, TypeOK, ChainOK, Times, IndexerAssumption
<1>2. TypeOK'
  BY <1>1 DEF IInv, TypeOK, ChainOK, Store
<1>3. IndexSound' /\ DisputesJoin'
  BY <1>1 DEF IInv, IndexSound, EntrySound, DisputesJoin
<1>4. QuestionsFollowed'
  BY <1>1 DEF IInv, QuestionsFollowed, Stands, Begun, NotBegun
<1>5. LifecycleFollowed'
  BY <1>1 DEF IInv, LifecycleFollowed, QuestionFollowed, StatusOf, RowStatusOf, Live, Round
<1>6. QED
  BY <1>2, <1>3, <1>4, <1>5 DEF IInv

LEMMA NextStep == ASSUME ~SharedBlocks, IInv, [Next]_vars PROVE IInv'
<1>1. CASE NextBlock \/ UNCHANGED vars
  BY <1>1, QuietStep
<1>2. ASSUME NEW q \in Questions, Initialise(q) PROVE IInv'
  BY <1>2, InitialiseStep
<1>3. ASSUME NEW q \in Questions, Propose(q) PROVE IInv'
  BY <1>3, ProposeStep
<1>4. ASSUME NEW q \in Questions, FirstStrike(q) PROVE IInv'
  BY <1>4, FirstStrikeStep
<1>5. ASSUME NEW q \in Questions, SecondStrike(q) PROVE IInv'
  BY <1>5, SecondStrikeStep
<1>6. ASSUME NEW q \in Questions, SettleLive(q) PROVE IInv'
  BY <1>6, SettleLiveStep
<1>7. ASSUME NEW q \in Questions, Resolve(q) PROVE IInv'
  BY <1>7, ResolveStep
<1>8. ASSUME NEW q \in Questions, SettleOld(q) PROVE IInv'
  BY <1>8, SettleOldStep
<1>9. QED
  BY <1>1, <1>2, <1>3, <1>4, <1>5, <1>6, <1>7, <1>8 DEF Next

LEMMA IndexAlways == ASSUME ~SharedBlocks PROVE Spec => []IInv
<1>1. IInv /\ [Next]_vars => IInv'
  BY NextStep
<1>2. QED
  BY <1>1, InitInv, PTL DEF Spec
-----------------------------------------------------------------------------
(* While the adapter asks at most one question per block, every dispute    *)
(* there was is recorded, once, against its market and round              *)
(* (handleDisputePrice and the join of resolveMarket).                      *)
THEOREM DisputesAlwaysJoin == ASSUME ~SharedBlocks PROVE Spec => []DisputesJoin
<1>1. IInv => DisputesJoin
  BY DEF IInv
<1>2. QED
  BY <1>1, IndexAlways, PTL

(* Likewise the market and its live request are where the chain is, however *)
(* the settlement of a replaced request falls (the handlers' status writes). *)
THEOREM LifecycleAlways == ASSUME ~SharedBlocks PROVE Spec => []LifecycleFollowed
<1>1. IInv => LifecycleFollowed
  BY DEF IInv
<1>2. QED
  BY <1>1, IndexAlways, PTL

\* An event of a question in its second round writes to the row of that round.
LEMMA RowKept ==
  ASSUME IInv, [Next]_vars, NEW p \in Questions, strikes[p] = 1
  PROVE  db'.ResolutionRequest[p][0] = db.ResolutionRequest[p][0]
<1>1. db \in Store /\ {0, 1} \subseteq Rounds
  BY DEF IInv, TypeOK, Rounds
<1>2. ASSUME NEW q \in Questions, NEW m, NEW rows, NEW d, Leaves(q, m, rows, d),
             strikes[q] = 1 => rows[0] = db.ResolutionRequest[q][0]
      PROVE  db'.ResolutionRequest[p][0] = db.ResolutionRequest[p][0]
  BY <1>1, <1>2 DEF Leaves, Store
<1>3. ASSUME NEW q \in Questions, NEW m, NEW row, NEW d,
             Leaves(q, m, [db.ResolutionRequest[q] EXCEPT ![strikes[q]] = row], d)
      PROVE  db'.ResolutionRequest[p][0] = db.ResolutionRequest[p][0]
  <2>1. strikes[q] = 1 =>
          [db.ResolutionRequest[q] EXCEPT ![strikes[q]] = row][0] = db.ResolutionRequest[q][0]
    BY <1>1 DEF Store
  <2>2. QED
    BY <1>2, <1>3, <2>1
<1>4. CASE NextBlock \/ UNCHANGED vars
  BY <1>4 DEF NextBlock, vars
<1>5. ASSUME NEW q \in Questions, Initialise(q)
      PROVE  db'.ResolutionRequest[p][0] = db.ResolutionRequest[p][0]
  <2>1. strikes[q] = 0
    BY <1>1, <1>5 DEF Initialise, IInv, QuestionsFollowed, Stands, NotBegun
  <2> DEFINE rows == [db.ResolutionRequest[q] EXCEPT ![0] = Requested(now)]
  <2>2. db'.ResolutionRequest = [db.ResolutionRequest EXCEPT ![q] = rows]
    <3>1. db' = [Market |-> [db.Market EXCEPT ![q] = [status |-> "REQUESTED", currentRound |-> 0]],
                 ResolutionRequest |-> [db.ResolutionRequest EXCEPT ![q] = rows],
                 RequestIndex |-> [db.RequestIndex EXCEPT ![Adapter[q]][now] = q],
                 Dispute |-> db.Dispute]
      BY <1>1, <1>5, InitialiseLeaves
    <3> HIDE DEF rows
    <3>2. QED
      BY <3>1
  <2>3. QED
    BY <1>1, <2>1, <2>2 DEF Store
<1>6. ASSUME NEW q \in Questions, Propose(q)
      PROVE  db'.ResolutionRequest[p][0] = db.ResolutionRequest[p][0]
  BY <1>1, <1>3, <1>6, ProposeLeaves
<1>7. ASSUME NEW q \in Questions, FirstStrike(q)
      PROVE  db'.ResolutionRequest[p][0] = db.ResolutionRequest[p][0]
  <2>1. strikes[q] = 0
    BY <1>7 DEF FirstStrike
  <2>2. PICK row \in RequestRows :
          Leaves(q, [status |-> "RESET", currentRound |-> 1],
                 [[db.ResolutionRequest[q] EXCEPT ![0] = row] EXCEPT ![1] = Requested(now)],
                 db.Dispute \cup {ThisDispute(q)})
    BY <1>1, <1>7, FirstStrikeLeaves
  <2>3. QED
    BY <1>2, <2>1, <2>2
<1>8. ASSUME NEW q \in Questions, SecondStrike(q)
      PROVE  db'.ResolutionRequest[p][0] = db.ResolutionRequest[p][0]
  <2>1. strikes[q] = 1
    BY <1>8 DEF SecondStrike
  <2>2. QED
    BY <1>1, <1>3, <1>8, <2>1, SecondStrikeLeaves
<1>9. ASSUME NEW q \in Questions, SettleLive(q)
      PROVE  db'.ResolutionRequest[p][0] = db.ResolutionRequest[p][0]
  <2>1. stage[q] # "none" /\ db' = Settle(db, q, asked[q][strikes[q]])
    BY <1>9 DEF SettleLive, Current
  <2>2. QED
    BY <1>1, <1>3, <2>1, Begins, SettleLeaves
<1>10. ASSUME NEW q \in Questions, Resolve(q)
       PROVE  db'.ResolutionRequest[p][0] = db.ResolutionRequest[p][0]
  BY <1>1, <1>3, <1>10, ResolveLeaves
<1>11. ASSUME NEW q \in Questions, SettleOld(q)
       PROVE  db'.ResolutionRequest[p][0] = db.ResolutionRequest[p][0]
  <2>1. stage[q] # "none" /\ db' = Settle(db, q, asked[q][0]) /\ 0 \in Rounds
    BY <1>1, <1>11 DEF SettleOld, IInv, QuestionsFollowed, Stands, NotBegun
  <2>2. asked[q][0] # 0
    BY <1>1, <2>1, Begins
  <2>3. QED
    BY <1>1, <1>3, <2>1, <2>2, SettleLeaves
<1>12. QED
  BY <1>1, <1>4, <1>5, <1>6, <1>7, <1>8, <1>9, <1>10, <1>11 DEF Next

(* Likewise no event after a reset rewrites the row of the round that was   *)
(* reset: the handlers write to the row of currentRound only.               *)
THEOREM RoundsStayClosed == ASSUME ~SharedBlocks PROVE Spec => ClosedRoundsKept
<1> DEFINE Kept == \A q \in Questions : strikes[q] = 1 =>
                     db'.ResolutionRequest[q][0] = db.ResolutionRequest[q][0]
<1>1. IInv /\ [Next]_vars => [Kept]_vars
  BY RowKept
<1>2. QED
  BY <1>1, IndexAlways, PTL DEF Spec, ClosedRoundsKept
-----------------------------------------------------------------------------
(* The readers.  What an entity holds is a set of items, a market, a dispute or a
   question that settled undisputed, each under a key that never changes. *)
Items(e) ==
  CASE e = "Market" -> {q \in Questions : stage[q] # "none"}
    [] e = "Dispute" -> disputed
    [] e = "ResolutionRequest" -> {q \in Questions : stage[q] = "resolved" /\ strikes[q] = 0}

ItemOf(e, row) == IF e = "Dispute" THEN row.dispute ELSE row.question

KeyOf(e, x) ==
  CASE e = "Market" -> IdOrder[x]
    [] e = "Dispute" -> asked[x.question][x.round]
    [] e = "ResolutionRequest" -> -asked[x][0]

\* No two requests of an adapter are of one block; a question without a strike asked once.
AskedApart ==
  /\ \A p, q \in Questions, r, s \in Rounds :
       Adapter[p] = Adapter[q] /\ asked[p][r] # 0 /\ asked[p][r] = asked[q][s] => p = q /\ r = s
  /\ \A q \in Questions : strikes[q] = 0 => asked[q][1] = 0

\* The row of the first round keeps its time, and its dispute; and no market is resolved
\* before its question.
RowsKept(q) ==
  stage[q] # "none" =>
    /\ db.ResolutionRequest[q][0] # None /\ db.ResolutionRequest[q][0].requestTimestamp = asked[q][0]
    /\ strikes[q] = 1 => db.ResolutionRequest[q][0].status = "DISPUTED"
    /\ db.Market[q].status = "RESOLVED" => stage[q] = "resolved"

\* A round is disputed once, and its question has then a strike.
DisputesPlaced ==
  /\ \A d \in disputed :
       /\ asked[d.question][d.round] # 0 /\ strikes[d.question] = 1
       /\ d.round = 1 => stage[d.question] \in {"voting", "settled", "resolved"}
  /\ \A c, d \in disputed : c.question = d.question /\ c.round = d.round => c = d

KeyInv == IInv /\ AskedApart /\ DisputesPlaced /\ \A q \in Questions : RowsKept(q)

\* What was pulled was so when it was pulled, and stays so.
Right(row) ==
  CASE query = "Market" ->
         /\ row.question \in Questions /\ row.status \in Statuses
         /\ row.status = "RESOLVED" => stage[row.question] = "resolved"
    [] query = "Dispute" -> row.dispute \in disputed /\ row.question = row.dispute.question
    [] query = "ResolutionRequest" ->
         row.question \in Questions /\ stage[row.question] = "resolved" /\ strikes[row.question] = 0

PulledItems == {ItemOf(query, row) : row \in Rows}

\* Where a row stands among those of smaller keys, and whether its key is its own.
Position(row, table) == Cardinality({r \in table : r.key < row.key})
Own(row, table) == \A s \in table : s.key = row.key => s = row
Owed(row) == Own(row, Table(query)) /\ ItemOf(query, row) \in present

\* The owed rows before the offset are pulled, wherever rows were inserted since.
PagesInv ==
  /\ reader \in {"idle", "paging", "done", "raised"} /\ query \in Entities /\ offset \in Nat
  /\ reader = "idle" => pulled = {} /\ offset = 0
  /\ reader # "idle" => present \subseteq Items(query)
  /\ \A row \in Rows : Right(row)
  /\ reader = "paging" =>
       \A row \in Table(query) :
         Owed(row) /\ Position(row, Table(query)) < offset => ItemOf(query, row) \in PulledItems
  /\ reader = "done" /\ ~short => \A row \in Table(query) : Owed(row) => ItemOf(query, row) \in PulledItems

\* As many copies as the offset says, which no page takes beyond the rows there are.
CopiesInv ==
  /\ IsFiniteSet(pulled)
  /\ reader = "paging" => Cardinality(pulled) = offset /\ \A copy \in pulled : copy.at \in Nat /\ copy.at < offset
  /\ reader \in {"paging", "done"} => Cardinality(pulled) <= Cardinality(Table(query))
  /\ reader = "done" /\ ~short => Cardinality(present) <= Cardinality(pulled)

Keyed(table) == IsFiniteSet(table) /\ \A row \in table : row.key \in Int

TableOK(e) ==
  /\ Keyed(Table(e))
  /\ \A row \in Table(e) : ItemOf(e, row) \in Items(e) /\ row.key = KeyOf(e, ItemOf(e, row))
  /\ \A r, s \in Table(e) : ItemOf(e, r) = ItemOf(e, s) => r = s
  /\ \A x \in Items(e) : \E row \in Table(e) : ItemOf(e, row) = x

-----------------------------------------------------------------------------
LEMMA AskedStep ==
  ASSUME ~SharedBlocks, KeyInv, [Next]_vars
  PROVE  /\ AskedApart'
         /\ \A q \in Questions, r \in Rounds : asked[q][r] # 0 => asked'[q][r] = asked[q][r]
         /\ \A q \in Questions : strikes[q] = 1 => strikes'[q] = 1
<1> DEFINE Goal == /\ AskedApart'
                   /\ \A q \in Questions, r \in Rounds : asked[q][r] # 0 => asked'[q][r] = asked[q][r]
                   /\ \A q \in Questions : strikes[q] = 1 => strikes'[q] = 1
<1>1. /\ AskedApart /\ 0 \in Rounds /\ 1 \in Rounds /\ asked \in [Questions -> [Rounds -> 0..MaxTime]]
      /\ strikes \in [Questions -> Rounds]
  BY DEF KeyInv, IInv, TypeOK, ChainOK, Rounds
<1>2. CASE UNCHANGED <<asked, strikes>>
  BY <1>1, <1>2 DEF AskedApart
<1>3. ASSUME NEW q \in Questions, NEW k \in Rounds, asked[q][k] = 0,
             asked' = [asked EXCEPT ![q][k] = now],
             \A p \in Questions, r \in Rounds : Adapter[p] = Adapter[q] => asked[p][r] # now,
             strikes' = [strikes EXCEPT ![q] = k], strikes[q] = 0
      PROVE  Goal
  <2>1. asked'[q][k] = now /\ strikes'[q] = k
    BY <1>1, <1>3
  <2>2. ASSUME NEW p \in Questions, NEW r \in Rounds, p # q \/ r # k
        PROVE  asked'[p][r] = asked[p][r]
    BY <1>1, <1>3, <2>2
  <2>3. ASSUME NEW p \in Questions, p # q PROVE strikes'[p] = strikes[p]
    BY <1>1, <1>3, <2>3
  <2>4. ASSUME NEW p \in Questions, NEW t \in Questions, NEW r \in Rounds, NEW s \in Rounds,
               Adapter[p] = Adapter[t], asked'[p][r] # 0, asked'[p][r] = asked'[t][s]
        PROVE  p = t /\ r = s
    BY <1>1, <1>3, <2>1, <2>2, <2>4 DEF AskedApart
  <2>5. ASSUME NEW p \in Questions, strikes'[p] = 0 PROVE asked'[p][1] = 0
    BY <1>1, <1>3, <2>1, <2>2, <2>3, <2>5 DEF AskedApart
  <2>6. QED
    BY <1>3, <2>2, <2>3, <2>4, <2>5 DEF AskedApart
<1>4. ASSUME NEW q \in Questions, Initialise(q) PROVE Goal
  <2>1. strikes[q] = 0 /\ asked[q][0] = 0
    BY <1>1, <1>4 DEF Initialise, KeyInv, IInv, QuestionsFollowed, Stands, NotBegun
  <2>2. strikes' = [strikes EXCEPT ![q] = 0]
    BY <1>1, <1>4, <2>1 DEF Initialise
  <2>3. QED
    BY <1>1, <1>3, <1>4, <2>1, <2>2 DEF Initialise, AloneInBlock
<1>5. ASSUME NEW q \in Questions, FirstStrike(q) PROVE Goal
  <2>1. strikes[q] = 0 /\ asked[q][1] = 0
    BY <1>1, <1>5 DEF FirstStrike, AskedApart
  <2>2. QED
    BY <1>1, <1>3, <1>5, <2>1 DEF FirstStrike, AloneInBlock
<1>6. QED
  BY <1>2, <1>4, <1>5 DEF Next, NextBlock, Propose, SecondStrike, SettleLive, Resolve, SettleOld, vars, oracle

\* A dispute is of the live round of its question, which it closes or sends to the vote.
LEMMA PlacedStep ==
  ASSUME ~SharedBlocks, KeyInv, [Next]_vars
  PROVE  DisputesPlaced' /\ disputed \subseteq disputed'
<1> DEFINE Voted == {"voting", "settled", "resolved"}
<1>1. /\ DisputesPlaced /\ disputed \subseteq DisputeRows /\ 0 \in Rounds /\ 1 \in Rounds
      /\ strikes \in [Questions -> Rounds] /\ stage \in [Questions -> Stages]
  BY DisputesTyped DEF KeyInv, IInv, TypeOK, ChainOK, Rounds, Stages
<1>2. \A d \in disputed : d.question \in Questions /\ d.round \in Rounds
  BY <1>1 DEF DisputeRows
<1>3. \A d \in disputed : asked'[d.question][d.round] # 0 /\ strikes'[d.question] = 1
  BY <1>1, <1>2, AskedStep DEF DisputesPlaced
<1>4. ASSUME NEW q \in Questions, strikes[q] = 1, stage[q] \in Voted PROVE stage'[q] \in Voted
  BY <1>1, <1>4 DEF Next, NextBlock, Initialise, Propose, FirstStrike, SecondStrike, SettleLive,
                    Resolve, SettleOld, vars, oracle
<1>5. ASSUME NEW d \in disputed, d.round = 1 PROVE stage'[d.question] \in Voted
  BY <1>1, <1>2, <1>4, <1>5 DEF DisputesPlaced
<1>6. CASE disputed' = disputed
  BY <1>1, <1>3, <1>5, <1>6 DEF DisputesPlaced
<1>7. ASSUME NEW q \in Questions, disputed' = disputed \cup {ThisDispute(q)},
             asked'[q][strikes[q]] # 0, strikes'[q] = 1, strikes[q] = 1 => stage'[q] = "voting",
             \A d \in disputed : d.question = q => d.round # strikes[q]
      PROVE  DisputesPlaced'
  <2>1. ThisDispute(q).question = q /\ ThisDispute(q).round = strikes[q]
    BY DEF ThisDispute
  <2> HIDE DEF ThisDispute
  <2>2. ASSUME NEW d \in disputed'
        PROVE  /\ asked'[d.question][d.round] # 0 /\ strikes'[d.question] = 1
               /\ d.round = 1 => stage'[d.question] \in Voted
    BY <1>3, <1>5, <1>7, <2>1
  <2>3. ASSUME NEW c \in disputed', NEW d \in disputed', c.question = d.question, c.round = d.round
        PROVE  c = d
    BY <1>1, <1>7, <2>1, <2>3 DEF DisputesPlaced
  <2>4. QED
    BY <2>2, <2>3 DEF DisputesPlaced
<1>8. ASSUME NEW q \in Questions, FirstStrike(q) PROVE DisputesPlaced'
  <2>1. /\ strikes[q] = 0 /\ stage[q] # "none" /\ strikes'[q] = 1
        /\ disputed' = disputed \cup {ThisDispute(q)}
    BY <1>1, <1>8 DEF FirstStrike
  <2>2. asked'[q][0] # 0
    BY <1>1, <2>1, Begins, AskedStep DEF KeyInv
  <2>3. \A d \in disputed : d.question # q
    BY <1>1, <2>1 DEF DisputesPlaced
  <2>4. QED
    BY <1>7, <2>1, <2>2, <2>3
<1>9. ASSUME NEW q \in Questions, SecondStrike(q) PROVE DisputesPlaced'
  <2>1. /\ strikes[q] = 1 /\ stage[q] = "proposed" /\ strikes'[q] = 1 /\ stage'[q] = "voting"
        /\ disputed' = disputed \cup {ThisDispute(q)}
    BY <1>1, <1>9 DEF SecondStrike
  <2>2. asked'[q][1] # 0
    BY <1>1, <2>1, Begins, AskedStep DEF KeyInv
  <2>3. \A d \in disputed : d.question = q => d.round # 1
    BY <1>1, <2>1 DEF DisputesPlaced
  <2>4. QED
    BY <1>7, <2>1, <2>2, <2>3
<1>10. DisputesPlaced'
  BY <1>6, <1>8, <1>9 DEF Next, NextBlock, Initialise, Propose, SettleLive, Resolve, SettleOld, vars, oracle
<1>11. disputed \subseteq disputed'
  BY DEF Next, NextBlock, Initialise, Propose, FirstStrike, SecondStrike, SettleLive, Resolve, SettleOld,
         vars, oracle
<1>12. QED
  BY <1>10, <1>11

LEMMA RowsStep ==
  ASSUME ~SharedBlocks, KeyInv, [Next]_vars, NEW p \in Questions
  PROVE  RowsKept(p)'
<1>1. /\ RowsKept(p) /\ db \in Store /\ 0 \in Rounds /\ 1 \in Rounds /\ IInv
      /\ strikes \in [Questions -> Rounds] /\ stage \in [Questions -> Stages]
      /\ asked \in [Questions -> [Rounds -> 0..MaxTime]]
  BY DEF KeyInv, IInv, TypeOK, ChainOK, Rounds, Stages
<1>2. ASSUME db'.Market[p] = db.Market[p], db'.ResolutionRequest[p] = db.ResolutionRequest[p],
             stage'[p] = stage[p], strikes'[p] = strikes[p], asked'[p] = asked[p]
      PROVE  RowsKept(p)'
  BY <1>1, <1>2 DEF RowsKept
<1>3. ASSUME NEW q \in Questions, NEW m, NEW row \in RequestRows, NEW d, SameRequest(q, row),
             Leaves(q, m, [db.ResolutionRequest[q] EXCEPT ![strikes[q]] = row], d),
             UNCHANGED <<asked, strikes>>, stage[q] # "none", m.status = "RESOLVED" => stage'[q] = "resolved",
             \A t \in Questions \ {q} : stage'[t] = stage[t]
      PROVE  RowsKept(p)'
  <2>1. CASE p # q
    <3>1. db'.Market[p] = db.Market[p] /\ db'.ResolutionRequest[p] = db.ResolutionRequest[p]
      BY <1>1, <1>3, <2>1 DEF Leaves, Store
    <3>2. QED
      BY <1>2, <1>3, <2>1, <3>1
  <2>2. CASE p = q
    <3> DEFINE rows == [db.ResolutionRequest[q] EXCEPT ![strikes[q]] = row]
    <3>1. db'.Market[q] = m /\ db'.ResolutionRequest[q] = rows /\ row # None
      BY <1>1, <1>3, NoneAssumption DEF Leaves, Store
    <3>2. CASE strikes[q] = 0
      <4>1. rows[0] = row /\ row.requestTimestamp = asked[q][0]
        BY <1>1, <1>3, <2>2, <3>2 DEF Store, RowsKept, SameRequest
      <4>2. QED
        BY <1>3, <2>2, <3>1, <3>2, <4>1 DEF RowsKept
    <3>3. CASE strikes[q] = 1
      <4>1. rows[0] = db.ResolutionRequest[q][0]
        BY <1>1, <3>3 DEF Store
      <4>2. QED
        BY <1>1, <1>3, <2>2, <3>1, <4>1 DEF RowsKept
    <3>4. QED
      BY <1>1, <3>2, <3>3 DEF Rounds
  <2>3. QED
    BY <2>1, <2>2
<1>4. CASE NextBlock \/ UNCHANGED vars
  BY <1>2, <1>4 DEF NextBlock, vars, oracle
<1>5. ASSUME NEW q \in Questions, Initialise(q) PROVE RowsKept(p)'
  <2> DEFINE m == [status |-> "REQUESTED", currentRound |-> 0]
             rows == [db.ResolutionRequest[q] EXCEPT ![0] = Requested(now)]
  <2>1. /\ strikes[q] = 0 /\ db'.Market = [db.Market EXCEPT ![q] = m]
        /\ db'.ResolutionRequest = [db.ResolutionRequest EXCEPT ![q] = rows]
    <3>1. strikes[q] = 0
      BY <1>1, <1>5 DEF Initialise, IInv, QuestionsFollowed, Stands, NotBegun
    <3>2. db' = [Market |-> [db.Market EXCEPT ![q] = m],
                 ResolutionRequest |-> [db.ResolutionRequest EXCEPT ![q] = rows],
                 RequestIndex |-> [db.RequestIndex EXCEPT ![Adapter[q]][now] = q],
                 Dispute |-> db.Dispute]
      BY <1>1, <1>5, InitialiseLeaves
    <3> HIDE DEF m, rows
    <3>3. QED
      BY <3>1, <3>2
  <2>2. CASE p # q
    BY <1>1, <1>2, <1>5, <2>1, <2>2 DEF Initialise, Store
  <2>3. CASE p = q
    <3>1. asked'[q][0] = now /\ stage'[q] = "requested" /\ strikes'[q] = 0
      BY <1>1, <1>5, <2>1 DEF Initialise
    <3>2. db'.Market[q] = m /\ db'.ResolutionRequest[q][0] = Requested(now)
      BY <1>1, <2>1 DEF Store
    <3>3. Requested(now) # None /\ Requested(now).requestTimestamp = now
      BY <1>1, IndexerAssumption, NoneAssumption
        DEF IInv, TypeOK, ChainOK, Times, Requested, RequestRows, Statuses, IndexerAssumption
    <3> HIDE DEF Requested
    <3>4. QED
      BY <2>3, <3>1, <3>2, <3>3 DEF RowsKept
  <2>4. QED
    BY <2>2, <2>3
<1>6. ASSUME NEW q \in Questions, Propose(q) PROVE RowsKept(p)'
  <2>1. PICK row \in RequestRows :
          /\ SameRequest(q, row)
          /\ Leaves(q, [status |-> "PROPOSED", currentRound |-> strikes[q]],
                    [db.ResolutionRequest[q] EXCEPT ![strikes[q]] = row], db.Dispute)
    BY <1>1, <1>6, ProposeLeaves
  <2>2. [status |-> "PROPOSED", currentRound |-> strikes[q]].status # "RESOLVED"
    OBVIOUS
  <2>3. QED
    BY <1>1, <1>3, <1>6, <2>1, <2>2 DEF Propose
<1>7. ASSUME NEW q \in Questions, FirstStrike(q) PROVE RowsKept(p)'
  <2> DEFINE m == [status |-> "RESET", currentRound |-> 1]
  <2>1. PICK row \in RequestRows :
          /\ row.status = "DISPUTED" /\ SameRequest(q, row)
          /\ Leaves(q, m, [[db.ResolutionRequest[q] EXCEPT ![0] = row] EXCEPT ![1] = Requested(now)],
                    db.Dispute \cup {ThisDispute(q)})
    BY <1>1, <1>7, FirstStrikeLeaves
  <2> DEFINE rows == [[db.ResolutionRequest[q] EXCEPT ![0] = row] EXCEPT ![1] = Requested(now)]
  <2>2. rows[0] = row /\ row # None
    BY <1>1, <2>1, NoneAssumption DEF Store
  <2>3. /\ db'.Market = [db.Market EXCEPT ![q] = m]
        /\ db'.ResolutionRequest = [db.ResolutionRequest EXCEPT ![q] = rows]
    BY <2>1 DEF Leaves
  <2> HIDE DEF rows
  <2>4. CASE p # q
    BY <1>1, <1>2, <1>7, <2>3, <2>4 DEF FirstStrike, Store
  <2>5. CASE p = q
    <3>1. asked'[q][0] = asked[q][0] /\ row.requestTimestamp = asked[q][0]
      BY <1>1, <1>7, <2>1, <2>5 DEF FirstStrike, RowsKept, SameRequest
    <3>2. db'.Market[q] = m /\ db'.ResolutionRequest[q] = rows
      BY <1>1, <2>3 DEF Store
    <3>3. QED
      BY <2>1, <2>2, <2>5, <3>1, <3>2 DEF RowsKept
  <2>6. QED
    BY <2>4, <2>5
<1>8. ASSUME NEW q \in Questions, SecondStrike(q) PROVE RowsKept(p)'
  <2> DEFINE m == [status |-> "DISPUTED", currentRound |-> 1]
  <2>1. PICK row \in RequestRows :
          Leaves(q, m, [db.ResolutionRequest[q] EXCEPT ![1] = row], db.Dispute \cup {ThisDispute(q)})
    BY <1>1, <1>8, SecondStrikeLeaves
  <2>2. /\ strikes[q] = 1 /\ stage[q] # "none" /\ UNCHANGED <<asked, strikes>>
        /\ \A t \in Questions \ {q} : stage'[t] = stage[t]
    BY <1>1, <1>8 DEF SecondStrike
  <2> DEFINE rows == [db.ResolutionRequest[q] EXCEPT ![1] = row]
  <2>3. /\ db'.Market = [db.Market EXCEPT ![q] = m] /\ rows[0] = db.ResolutionRequest[q][0]
        /\ db'.ResolutionRequest = [db.ResolutionRequest EXCEPT ![q] = rows]
    BY <1>1, <2>1 DEF Leaves, Store
  <2> HIDE DEF rows
  <2>4. CASE p # q
    BY <1>1, <1>2, <2>2, <2>3, <2>4 DEF Store
  <2>5. CASE p = q
    <3>1. db'.Market[q] = m /\ db'.ResolutionRequest[q] = rows
      BY <1>1, <2>3 DEF Store
    <3>2. QED
      BY <1>1, <2>2, <2>3, <2>5, <3>1 DEF RowsKept
  <2>6. QED
    BY <2>4, <2>5
<1>9. ASSUME NEW q \in Questions, SettleLive(q) PROVE RowsKept(p)'
  <2>1. /\ stage[q] \in {"proposed", "voting"} /\ db' = Settle(db, q, asked[q][strikes[q]])
        /\ UNCHANGED <<asked, strikes>> /\ \A t \in Questions \ {q} : stage'[t] = stage[t]
    BY <1>1, <1>9 DEF SettleLive, Current
  <2>2. PICK row \in RequestRows :
          /\ SameRequest(q, row)
          /\ Leaves(q, db.Market[q], [db.ResolutionRequest[q] EXCEPT ![strikes[q]] = row], db.Dispute)
    BY <1>1, <2>1, Begins, SettleLeaves
  <2>3. db.Market[q].status # "RESOLVED"
    BY <2>1 DEF KeyInv, RowsKept
  <2>4. QED
    BY <1>3, <2>1, <2>2, <2>3
<1>10. ASSUME NEW q \in Questions, Resolve(q) PROVE RowsKept(p)'
  <2>1. PICK row \in RequestRows :
          /\ SameRequest(q, row)
          /\ Leaves(q, [status |-> "RESOLVED", currentRound |-> strikes[q]],
                    [db.ResolutionRequest[q] EXCEPT ![strikes[q]] = row], db.Dispute)
    BY <1>1, <1>10, ResolveLeaves
  <2>2. /\ stage[q] = "settled" /\ stage'[q] = "resolved" /\ UNCHANGED <<asked, strikes>>
        /\ \A t \in Questions \ {q} : stage'[t] = stage[t]
    BY <1>1, <1>10 DEF Resolve
  <2>3. QED
    BY <1>3, <2>1, <2>2
<1>11. ASSUME NEW q \in Questions, SettleOld(q) PROVE RowsKept(p)'
  <2>1. /\ stage[q] # "none" /\ db' = Settle(db, q, asked[q][0]) /\ UNCHANGED <<stage, asked, strikes>>
    BY <1>1, <1>11 DEF SettleOld, IInv, QuestionsFollowed, Stands, NotBegun
  <2>2. PICK row \in RequestRows :
          /\ SameRequest(q, row)
          /\ Leaves(q, db.Market[q], [db.ResolutionRequest[q] EXCEPT ![strikes[q]] = row], db.Dispute)
    BY <1>1, <2>1, Begins, SettleLeaves
  <2>3. db.Market[q].status = "RESOLVED" => stage[q] = "resolved"
    BY <2>1 DEF KeyInv, RowsKept
  <2>4. QED
    BY <1>3, <2>1, <2>2, <2>3
<1>12. QED
  BY <1>4, <1>5, <1>6, <1>7, <1>8, <1>9, <1>10, <1>11 DEF Next

LEMMA KeyStep == ASSUME ~SharedBlocks, KeyInv, [Next]_vars PROVE KeyInv'
  BY NextStep, AskedStep, PlacedStep, RowsStep DEF KeyInv

LEMMA KeyInit == Init => KeyInv
<1> SUFFICES ASSUME Init PROVE KeyInv
  OBVIOUS
<1>1. AskedApart /\ DisputesPlaced /\ \A q \in Questions : RowsKept(q)
  BY DEF Init, AskedApart, DisputesPlaced, RowsKept, Rounds
<1>2. QED
  BY <1>1, InitInv DEF KeyInv

-----------------------------------------------------------------------------
(* Paging: what a query skips, and what it skips with the page, are initial *)
(* parts of the table, and a row whose key is its own is in such a part     *)
(* when the part is longer than the rows before it are many.                *)
LEMMA PositionIn ==
  ASSUME NEW table, Keyed(table), NEW row \in table
  PROVE  Position(row, table) \in Nat /\ Position(row, table) < Cardinality(table)
<1> DEFINE Before == {r \in table : r.key < row.key}
<1>1. IsFiniteSet(table) /\ row.key \in Int
  BY DEF Keyed
<1>2. /\ IsFiniteSet(table \ {row}) /\ Cardinality(table \ {row}) = Cardinality(table) - 1
      /\ Cardinality(table) \in Nat
  BY <1>1, FS_RemoveElement, FS_CardinalityType
<1>3. Before \in SUBSET (table \ {row})
  BY <1>1
<1>4. IsFiniteSet(Before) /\ Cardinality(Before) <= Cardinality(table) - 1
  BY <1>2, <1>3, FS_Subset
<1>5. Cardinality(Before) \in Nat
  BY <1>4, FS_CardinalityType
<1>6. QED
  BY <1>2, <1>4, <1>5 DEF Position

LEMMA InitialPart ==
  ASSUME NEW table, Keyed(table), NEW part \in SUBSET table, Initial(part, table),
         NEW row \in table, Own(row, table)
  PROVE  row \in part <=> Position(row, table) < Cardinality(part)
<1> DEFINE Before == {r \in table : r.key < row.key}
<1>1. IsFiniteSet(table) /\ \A r \in table : r.key \in Int
  BY DEF Keyed
<1>2. IsFiniteSet(part) /\ IsFiniteSet(Before) /\ Cardinality(part) \in Nat /\ Cardinality(Before) \in Nat
  <2>1. Before \in SUBSET table
    OBVIOUS
  <2>2. QED
    BY <1>1, <2>1, FS_Subset, FS_CardinalityType
<1>3. ASSUME row \in part PROVE Cardinality(Before) < Cardinality(part)
  <2>1. Before \in SUBSET (part \ {row})
    BY <1>1, <1>3 DEF Initial
  <2>2. IsFiniteSet(part \ {row}) /\ Cardinality(part \ {row}) = Cardinality(part) - 1
    BY <1>2, <1>3, FS_RemoveElement
  <2>3. Cardinality(Before) <= Cardinality(part \ {row})
    BY <2>1, <2>2, FS_Subset
  <2> HIDE DEF Before
  <2>4. QED
    BY <1>2, <2>2, <2>3
<1>4. ASSUME row \notin part PROVE Cardinality(part) <= Cardinality(Before)
  <2>1. ASSUME NEW s \in part PROVE s \in Before
    <3>1. ~(row.key < s.key) /\ s.key # row.key
      BY <1>4, <2>1 DEF Initial, Own
    <3>2. s \in table /\ s.key \in Int /\ row.key \in Int
      BY <1>1, <2>1
    <3>3. QED
      BY <3>1, <3>2
  <2>2. part \in SUBSET Before
    BY <2>1
  <2> HIDE DEF Before
  <2>3. QED
    BY <1>2, <2>2, FS_Subset
<1> HIDE DEF Before
<1>5. Position(row, table) = Cardinality(Before)
  BY DEF Position, Before
<1>6. QED
  BY <1>2, <1>3, <1>4, <1>5

\* What a page takes: no more than it may, as many as are left when that is less, and every
\* row that stands within it on a key of its own.
LEMMA PageTakes ==
  ASSUME NEW table, Keyed(table), offset \in Nat, offset <= Cardinality(table), PageSize \in Nat \ {0},
         NEW page \in Pages(table)
  PROVE  LET n == Cardinality(page)
         IN  /\ IsFiniteSet(page) /\ page \subseteq table /\ n \in Nat /\ n <= PageSize
             /\ offset + n <= Cardinality(table) /\ (n < PageSize => offset + n = Cardinality(table))
             /\ \A row \in table :
                  Own(row, table) /\ offset <= Position(row, table) /\ Position(row, table) < offset + n => row \in page
<1> DEFINE n == Cardinality(page)
<1>1. IsFiniteSet(table) /\ Cardinality(table) \in Nat
  BY FS_CardinalityType DEF Keyed
<1>2. /\ page \in SUBSET table /\ n = Fewer(PageSize, Cardinality(table) - Passed(table))
      /\ \E before \in SUBSET (table \ page) :
           /\ Cardinality(before) = Passed(table)
           /\ Initial(before, table) /\ Initial(before \cup page, table)
  BY DEF Pages
<1>3. Passed(table) = offset
  BY DEF Passed, Fewer
<1>4. IsFiniteSet(page) /\ n \in Nat
  BY <1>1, <1>2, FS_Subset, FS_CardinalityType
<1>5. n <= PageSize /\ offset + n <= Cardinality(table) /\ (n < PageSize => offset + n = Cardinality(table))
  <2> HIDE DEF n
  <2> QED
    BY <1>1, <1>2, <1>3, <1>4 DEF Fewer
<1>6. PICK before \in SUBSET (table \ page) :
        Cardinality(before) = offset /\ Initial(before, table) /\ Initial(before \cup page, table)
  BY <1>2, <1>3
<1>7. Cardinality(before \cup page) = offset + n /\ before \cup page \in SUBSET table
  <2>1. IsFiniteSet(before) /\ before \cap page = {}
    BY <1>1, FS_Subset
  <2>2. Cardinality(before \cup page) = Cardinality(before) + n
    <3>1. Cardinality(before \cup page) = Cardinality(before) + n - Cardinality({})
      BY <1>4, <2>1, FS_Union
    <3>2. Cardinality({}) = 0 /\ Cardinality(before) \in Nat
      BY <1>6, FS_EmptySet
    <3> HIDE DEF n
    <3>3. QED
      BY <1>4, <3>1, <3>2
  <2>3. QED
    BY <1>2, <1>6, <2>2
<1>8. ASSUME NEW row \in table, Own(row, table), offset <= Position(row, table),
             Position(row, table) < offset + n
      PROVE  row \in page
  <2>1. Position(row, table) \in Nat
    BY PositionIn
  <2>2. row \in before <=> Position(row, table) < offset
    BY <1>6, <1>8, InitialPart
  <2>3. row \in before \cup page
    BY <1>6, <1>7, <1>8, InitialPart
  <2>4. QED
    BY <1>8, <2>1, <2>2, <2>3
<1>9. QED
  BY <1>2, <1>4, <1>5, <1>8

\* A row stands no nearer to the front when the rows of a table stay and others join.
LEMMA PositionGrows ==
  ASSUME NEW T, NEW U, Keyed(U), NEW f \in Injection(T, U), \A r \in T : f[r].key = r.key, NEW row \in T
  PROVE  Position(row, T) <= Position(f[row], U)
<1> DEFINE A == {t \in T : t.key < row.key}
           B == {u \in U : u.key < f[row].key}
           g == [t \in A |-> f[t]]
<1>1. IsFiniteSet(U) /\ B \in SUBSET U
  BY DEF Keyed
<1>2. IsFiniteSet(B)
  BY <1>1, FS_Subset
<1>3. \A t \in A : f[t] \in B
  BY DEF Injection
<1>4. \A s, t \in A : f[s] = f[t] => s = t
  BY DEF Injection, IsInjective
<1>5. g \in Injection(A, B)
  BY <1>3, <1>4 DEF Injection, IsInjective
<1> HIDE DEF g
<1>6. Cardinality(A) <= Cardinality(B)
  BY <1>2, <1>5, FS_Injection
<1>7. QED
  BY <1>6 DEF Position

-----------------------------------------------------------------------------
(* The tables of the index: one row for each item, under its key.           *)
LEMMA FiniteByTime ==
  ASSUME NEW S, NEW a, NEW t, \A x \in S : a[x] \in Adapters /\ t[x] \in Times,
         \A x, y \in S : a[x] = a[y] /\ t[x] = t[y] => x = y
  PROVE  IsFiniteSet(S)
<1> DEFINE f == [x \in S |-> <<a[x], t[x]>>]
<1>1. f \in Injection(S, Adapters \X Times)
  BY DEF Injection, IsInjective
<1>2. IsFiniteSet(Times) /\ IsFiniteSet(Adapters)
  BY FS_Interval, IndexerAssumption DEF Times, IndexerAssumption
<1>3. IsFiniteSet(Adapters \X Times)
  BY <1>2, FS_Product
<1> HIDE DEF f
<1>4. QED
  BY <1>1, <1>3, FS_Injection

LEMMA Requests ==
  ASSUME KeyInv, NEW q \in Questions
  PROVE  /\ stage[q] # "none" <=> Known(db, q)
         /\ stage[q] # "none" => asked[q][0] \in Times
         /\ strikes[q] \in Rounds /\ 0 \in Rounds
         /\ \A r \in Rounds : asked[q][r] \in 0..MaxTime
<1>1. /\ asked \in [Questions -> [Rounds -> 0..MaxTime]] /\ strikes \in [Questions -> Rounds]
      /\ 0 \in Rounds /\ Stands(q)
  BY DEF KeyInv, IInv, TypeOK, ChainOK, QuestionsFollowed, Rounds
<1>2. stage[q] # "none" => asked[q][0] # 0
  BY <1>1 DEF Stands, Begun
<1>3. stage[q] # "none" <=> Known(db, q)
  BY <1>1 DEF Stands, Begun, NotBegun, Known
<1>4. QED
  BY <1>1, <1>2, <1>3, IndexerAssumption DEF Times, IndexerAssumption

LEMMA MarketTable == ASSUME KeyInv PROVE TableOK("Market")
<1> DEFINE T == {[key |-> IdOrder[q], question |-> q, status |-> db.Market[q].status] :
                   q \in {p \in Questions : Known(db, p)}}
           a == [row \in T |-> Adapter[row.question]]
           t == [row \in T |-> asked[row.question][0]]
<1>1. Table("Market") = T /\ Items("Market") = {q \in Questions : stage[q] # "none"}
  BY DEF Table, Items
<1>2. ASSUME NEW row \in T
      PROVE  /\ row.question \in Questions /\ stage[row.question] # "none" /\ asked[row.question][0] \in Times
             /\ row = [key |-> IdOrder[row.question], question |-> row.question,
                       status |-> db.Market[row.question].status]
  BY <1>2, Requests
<1>3. ASSUME NEW r \in T, NEW s \in T, r.question = s.question PROVE r = s
  BY <1>2, <1>3
<1>4. ASSUME NEW r \in T, NEW s \in T, Adapter[r.question] = Adapter[s.question],
             asked[r.question][0] = asked[s.question][0]
      PROVE  r = s
  BY <1>2, <1>3, <1>4, IndexerAssumption DEF KeyInv, AskedApart, Times, Rounds, IndexerAssumption
<1>6. \A row \in T : row.key \in Int /\ row.key = IdOrder[row.question]
  BY <1>2, ReadersAssumption DEF ReadersAssumption
<1>7. ASSUME NEW q \in Questions, stage[q] # "none" PROVE \E row \in T : row.question = q
  <2>1. [key |-> IdOrder[q], question |-> q, status |-> db.Market[q].status] \in T
    BY <1>7, Requests
  <2>2. QED
    BY <2>1
<1> HIDE DEF T
<1>8. IsFiniteSet(T)
  <2>1. \A x \in T : a[x] \in Adapters /\ t[x] \in Times
    BY <1>2 DEF Adapters
  <2>2. \A x, y \in T : a[x] = a[y] /\ t[x] = t[y] => x = y
    BY <1>4
  <2> HIDE DEF a, t
  <2>3. QED
    BY <2>1, <2>2, FiniteByTime
<1>9. QED
  BY <1>1, <1>2, <1>3, <1>6, <1>7, <1>8 DEF TableOK, Keyed, ItemOf, KeyOf

\* The ids of markets are all different.
LEMMA MarketsOwn == ASSUME KeyInv PROVE \A row \in Table("Market") : Own(row, Table("Market"))
<1>1. ASSUME NEW r \in Table("Market"), NEW s \in Table("Market"), s.key = r.key PROVE s = r
  <2>1. PICK p \in Questions : r = [key |-> IdOrder[p], question |-> p, status |-> db.Market[p].status]
    BY DEF Table
  <2>2. PICK q \in Questions : s = [key |-> IdOrder[q], question |-> q, status |-> db.Market[q].status]
    BY DEF Table
  <2>3. IdOrder[q] = IdOrder[p]
    BY <1>1, <2>1, <2>2
  <2>4. p = q
    BY <2>3, ReadersAssumption DEF ReadersAssumption
  <2>5. QED
    BY <2>1, <2>2, <2>4
<1>2. QED
  BY <1>1 DEF Own

LEMMA DisputeTable == ASSUME KeyInv PROVE TableOK("Dispute")
<1> DEFINE T == {[key |-> asked[d.question][d.round], question |-> d.question, dispute |-> d] : d \in db.Dispute}
           a == [row \in T |-> Adapter[row.dispute.question]]
           t == [row \in T |-> asked[row.dispute.question][row.dispute.round]]
<1>1. Table("Dispute") = T /\ Items("Dispute") = disputed
  BY DEF Table, Items
<1>2. db.Dispute = disputed /\ \A d \in disputed : d.question \in Questions /\ d.round \in Rounds
  BY DisputesTyped DEF KeyInv, DisputeRows
<1>3. ASSUME NEW row \in T
      PROVE  /\ row.dispute \in disputed /\ row.question = row.dispute.question
             /\ row.key = asked[row.dispute.question][row.dispute.round]
             /\ row = [key |-> asked[row.dispute.question][row.dispute.round],
                       question |-> row.dispute.question, dispute |-> row.dispute]
  BY <1>2, <1>3
<1>4. \A row \in T : row.key \in Times
  BY <1>2, <1>3, Requests, IndexerAssumption DEF KeyInv, DisputesPlaced, Times, IndexerAssumption
<1>5. /\ \A r, s \in T : r.dispute = s.dispute => r = s
      /\ \A r, s \in T : Adapter[r.dispute.question] = Adapter[s.dispute.question] /\ r.key = s.key => r = s
  <2>1. ASSUME NEW r \in T, NEW s \in T, r.dispute = s.dispute PROVE r = s
    BY <1>3, <2>1
  <2>2. ASSUME NEW r \in T, NEW s \in T, Adapter[r.dispute.question] = Adapter[s.dispute.question], r.key = s.key
        PROVE  r.dispute = s.dispute
    BY <1>2, <1>3, <1>4, <2>2, IndexerAssumption
      DEF KeyInv, DisputesPlaced, AskedApart, Times, IndexerAssumption
  <2>3. QED
    BY <2>1, <2>2
<1>6. ASSUME NEW d \in disputed PROVE \E row \in T : row.dispute = d
  <2>1. [key |-> asked[d.question][d.round], question |-> d.question, dispute |-> d] \in T
    BY <1>2
  <2>2. QED
    BY <2>1
<1> HIDE DEF T
<1>7. IsFiniteSet(T)
  <2>1. \A x \in T : a[x] \in Adapters /\ t[x] \in Times
    BY <1>2, <1>3, <1>4 DEF Adapters
  <2>2. \A x, y \in T : a[x] = a[y] /\ t[x] = t[y] => x = y
    BY <1>3, <1>5
  <2> HIDE DEF a, t
  <2>3. QED
    BY <2>1, <2>2, FiniteByTime
<1>8. \A row \in T : row.key \in Int
  BY <1>4 DEF Times
<1>9. QED
  BY <1>1, <1>3, <1>5, <1>6, <1>7, <1>8 DEF TableOK, Keyed, ItemOf, KeyOf

\* The round-0 requests that settled are those of the questions that resolved undisputed.
LEMMA SettledRows ==
  ASSUME KeyInv, NEW q \in Questions
  PROVE  (stage[q] = "resolved" /\ strikes[q] = 0) <=>
           /\ Known(db, q) /\ db.Market[q].status = "RESOLVED"
           /\ db.ResolutionRequest[q][0] # None /\ db.ResolutionRequest[q][0].status = "RESOLVED"
<1>1. /\ strikes[q] \in {0, 1} /\ (stage[q] # "none" <=> Known(db, q))
      /\ QuestionFollowed(q) /\ RowsKept(q)
  BY Requests DEF KeyInv, IInv, LifecycleFollowed, Rounds
<1>2. ASSUME stage[q] = "resolved", strikes[q] = 0
      PROVE  /\ Known(db, q) /\ db.Market[q].status = "RESOLVED"
             /\ db.ResolutionRequest[q][0] # None /\ db.ResolutionRequest[q][0].status = "RESOLVED"
  BY <1>1, <1>2 DEF QuestionFollowed, StatusOf, RowStatusOf, Live, Round, RowsKept
<1>3. ASSUME Known(db, q), db.Market[q].status = "RESOLVED", db.ResolutionRequest[q][0].status = "RESOLVED"
      PROVE  stage[q] = "resolved" /\ strikes[q] = 0
  BY <1>1, <1>3 DEF RowsKept
<1>4. QED
  BY <1>2, <1>3

LEMMA RequestTable == ASSUME KeyInv PROVE TableOK("ResolutionRequest")
<1> DEFINE S == {q \in Questions : stage[q] = "resolved" /\ strikes[q] = 0}
           T == {[key |-> -asked[q][0], question |-> q] : q \in S}
           a == [row \in T |-> Adapter[row.question]]
           t == [row \in T |-> asked[row.question][0]]
<1>1. Table("ResolutionRequest") = T
  <2> DEFINE R == {p \in Questions :
                     /\ Known(db, p) /\ db.Market[p].status = "RESOLVED"
                     /\ db.ResolutionRequest[p][0] # None
                     /\ db.ResolutionRequest[p][0].status = "RESOLVED"}
             row(q) == [key |-> -db.ResolutionRequest[q][0].requestTimestamp, question |-> q]
  <2>1. Table("ResolutionRequest") = {row(q) : q \in R}
    BY DEF Table
  <2>2. R = S
    BY SettledRows
  <2>3. ASSUME NEW q \in S PROVE row(q) = [key |-> -asked[q][0], question |-> q]
    BY DEF KeyInv, RowsKept
  <2> HIDE DEF R, S
  <2>4. QED
    BY <2>1, <2>2, <2>3
<1>2. Items("ResolutionRequest") = S
  BY DEF Items
<1>3. ASSUME NEW row \in T
      PROVE  /\ row.question \in S /\ asked[row.question][0] \in Times
             /\ row = [key |-> -asked[row.question][0], question |-> row.question]
  BY <1>3, Requests
<1>4. ASSUME NEW r \in T, NEW s \in T, Adapter[r.question] = Adapter[s.question],
             asked[r.question][0] = asked[s.question][0]
      PROVE  r = s
  BY <1>3, <1>4, IndexerAssumption DEF KeyInv, AskedApart, Times, Rounds, IndexerAssumption
<1>5. \A row \in T : row.key \in Int /\ row.key = -asked[row.question][0]
  BY <1>3 DEF Times
<1>6. ASSUME NEW r \in T, NEW s \in T, r.question = s.question PROVE r = s
  BY <1>3, <1>6
<1>7. ASSUME NEW q \in S PROVE \E row \in T : row.question = q
  <2>1. [key |-> -asked[q][0], question |-> q] \in T
    OBVIOUS
  <2>2. QED
    BY <2>1
<1> HIDE DEF T, S
<1>8. IsFiniteSet(T)
  <2>1. \A x \in T : a[x] \in Adapters /\ t[x] \in Times
    BY <1>3 DEF Adapters, S
  <2>2. \A x, y \in T : a[x] = a[y] /\ t[x] = t[y] => x = y
    BY <1>4
  <2> HIDE DEF a, t
  <2>3. QED
    BY <2>1, <2>2, FiniteByTime
<1>9. QED
  BY <1>1, <1>2, <1>3, <1>5, <1>6, <1>7, <1>8 DEF TableOK, Keyed, ItemOf, KeyOf

LEMMA TablesOK == KeyInv => \A e \in Entities : TableOK(e)
  BY MarketTable, DisputeTable, RequestTable DEF Entities

\* What an entity holds it keeps, under the same key.
LEMMA ItemsStay ==
  ASSUME ~SharedBlocks, KeyInv, [Next]_vars, NEW e \in Entities
  PROVE  /\ Items(e) \subseteq Items(e)'
         /\ \A x \in Items(e) : KeyOf(e, x)' = KeyOf(e, x)
<1>1. /\ stage \in [Questions -> Stages] /\ strikes \in [Questions -> Rounds] /\ 0 \in Rounds
      /\ \A q \in Questions : stage[q] # "none" => asked[q][0] # 0
      /\ \A d \in disputed : d.question \in Questions /\ d.round \in Rounds
  BY Begins, DisputesTyped DEF KeyInv, IInv, TypeOK, ChainOK, Rounds, Stages, DisputeRows
<1>2. ASSUME NEW q \in Questions
      PROVE  /\ stage[q] # "none" => stage'[q] # "none" /\ asked'[q][0] = asked[q][0]
             /\ stage[q] = "resolved" => stage'[q] = "resolved" /\ strikes'[q] = strikes[q]
  <2>1. stage[q] # "none" => asked'[q][0] = asked[q][0]
    BY <1>1, AskedStep
  <2>2. /\ stage[q] # "none" => stage'[q] # "none"
        /\ stage[q] = "resolved" => stage'[q] = "resolved" /\ strikes'[q] = strikes[q]
    BY <1>1 DEF Next, NextBlock, Initialise, Propose, FirstStrike, SecondStrike, SettleLive,
                Resolve, SettleOld, vars, oracle
  <2>3. QED
    BY <2>1, <2>2
<1>3. \A d \in disputed : d \in disputed' /\ asked'[d.question][d.round] = asked[d.question][d.round]
  BY <1>1, AskedStep, PlacedStep DEF KeyInv, DisputesPlaced
<1>4. CASE e = "Market"
  BY <1>2, <1>4 DEF Items, KeyOf
<1>5. CASE e = "Dispute"
  BY <1>3, <1>5 DEF Items, KeyOf
<1>6. CASE e = "ResolutionRequest"
  BY <1>2, <1>6 DEF Items, KeyOf
<1>7. QED
  BY <1>4, <1>5, <1>6 DEF Entities

-----------------------------------------------------------------------------
(* The steps of the readers.                                                *)
LEMMA TableRight ==
  ASSUME KeyInv, query \in Entities, NEW row \in Table(query)
  PROVE  Right(row)
<1>1. TableOK(query)
  BY TablesOK
<1>2. CASE query = "Market"
  <2>1. PICK q \in Questions :
          Known(db, q) /\ row = [key |-> IdOrder[q], question |-> q, status |-> db.Market[q].status]
    BY <1>2 DEF Table
  <2>2. /\ db.Market[q].status \in Statuses
        /\ db.Market[q].status = "RESOLVED" => stage[q] = "resolved"
    BY <2>1, Requests, Begins DEF KeyInv, RowsKept, MarketRows
  <2>3. row.question = q /\ row.status = db.Market[q].status
    BY <2>1
  <2>4. QED
    BY <1>2, <2>2, <2>3 DEF Right
<1>3. CASE query = "Dispute"
  <2>1. PICK d \in db.Dispute :
          row = [key |-> asked[d.question][d.round], question |-> d.question, dispute |-> d]
    BY <1>3 DEF Table
  <2>2. d \in disputed /\ row.question = d.question /\ row.dispute = d
    BY <2>1, DisputesTyped DEF KeyInv
  <2>3. QED
    BY <1>3, <2>2 DEF Right
<1>4. CASE query = "ResolutionRequest"
  <2>1. row.question \in {q \in Questions : stage[q] = "resolved" /\ strikes[q] = 0}
    BY <1>1, <1>4 DEF TableOK, ItemOf, Items
  <2>2. QED
    BY <1>4, <2>1 DEF Right
<1>5. QED
  BY <1>2, <1>3, <1>4 DEF Entities

LEMMA RightStays ==
  ASSUME ~SharedBlocks, KeyInv, [Next]_vars, UNCHANGED readerVars, query \in Entities, NEW row, Right(row)
  PROVE  Right(row)'
<1>1. query' = query
  BY DEF readerVars
<1>2. ASSUME NEW q \in Questions, stage[q] = "resolved" PROVE stage'[q] = "resolved" /\ strikes'[q] = strikes[q]
  <2>1. stage \in [Questions -> Stages] /\ strikes \in [Questions -> Rounds]
    BY DEF KeyInv, IInv, TypeOK, ChainOK, Stages
  <2>2. QED
    BY <1>2, <2>1 DEF Next, NextBlock, Initialise, Propose, FirstStrike, SecondStrike, SettleLive,
                      Resolve, SettleOld, vars, oracle
<1>3. disputed \subseteq disputed'
  BY PlacedStep
<1>4. CASE query = "Market"
  BY <1>1, <1>2, <1>4 DEF Right
<1>5. CASE query = "Dispute"
  BY <1>1, <1>3, <1>5 DEF Right
<1>6. CASE query = "ResolutionRequest"
  BY <1>1, <1>2, <1>6 DEF Right
<1>7. QED
  BY <1>4, <1>5, <1>6 DEF Entities

\* Every row of an entity keeps its item and its key.
LEMMA TableGrows ==
  ASSUME ~SharedBlocks, KeyInv, KeyInv', [Next]_vars, query \in Entities, query' = query
  PROVE  \E f \in Injection(Table(query), Table(query)') :
           \A row \in Table(query) : ItemOf(query, f[row]) = ItemOf(query, row) /\ f[row].key = row.key
<1> DEFINE T == Table(query)
           U == Table(query)'
           f == [r \in T |-> CHOOSE s \in U : ItemOf(query, s) = ItemOf(query, r)]
<1>1. TableOK(query) /\ TableOK(query)'
  <2>1. (\A e \in Entities : TableOK(e))'
    BY TablesOK, PTL
  <2>2. QED
    BY <2>1, TablesOK
<1>2. /\ Items(query) \subseteq Items(query)'
      /\ \A y \in Items(query) : KeyOf(query, y)' = KeyOf(query, y)
  BY ItemsStay
<1>3. \A s : ItemOf(query, s)' = ItemOf(query, s)
  BY DEF ItemOf
<1>4. ASSUME NEW r \in T
      PROVE  f[r] \in U /\ ItemOf(query, f[r]) = ItemOf(query, r) /\ f[r].key = r.key
  <2>1. ItemOf(query, r) \in Items(query) /\ r.key = KeyOf(query, ItemOf(query, r))
    BY <1>1 DEF TableOK
  <2>2. \E s \in U : ItemOf(query, s) = ItemOf(query, r)
    BY <1>1, <1>2, <1>3, <2>1 DEF TableOK
  <2>3. f[r] \in U /\ ItemOf(query, f[r]) = ItemOf(query, r)
    BY <2>2
  <2> HIDE DEF f
  <2>4. PICK s \in U : s = f[r]
    BY <2>3
  <2>5. s.key = KeyOf(query, ItemOf(query, s))' /\ ItemOf(query, s)' = ItemOf(query, r)
    BY <1>1, <1>3, <2>3, <2>4 DEF TableOK
  <2>6. PICK x \in Items(query) : x = ItemOf(query, r)
    BY <2>1
  <2>7. s.key = KeyOf(query, x)' /\ r.key = KeyOf(query, x)
    BY <2>1, <2>5, <2>6
  <2>8. QED
    BY <1>2, <2>3, <2>4, <2>7
<1>5. ASSUME NEW r \in T, NEW s \in T, f[r] = f[s] PROVE r = s
  <2>1. ItemOf(query, r) = ItemOf(query, s)
    BY <1>4, <1>5
  <2>2. QED
    BY <1>1, <2>1 DEF TableOK
<1>6. f \in [T -> U]
  BY <1>4
<1> HIDE DEF f
<1>7. f \in Injection(T, U)
  BY <1>5, <1>6 DEF Injection, IsInjective
<1>8. QED
  BY <1>4, <1>7

\* Rows inserted while a reader pages push the others back, never over the offset.
LEMMA IndexerPages ==
  ASSUME ~SharedBlocks, KeyInv, KeyInv', PagesInv, CopiesInv, [Next]_vars, UNCHANGED readerVars
  PROVE  PagesInv' /\ CopiesInv'
<1> DEFINE T == Table(query)
           U == Table(query)'
<1>1. /\ UNCHANGED <<reader, query, nmap, offset, tries, pulled, short, present>> /\ query \in Entities
      /\ offset \in Nat
  BY DEF readerVars, PagesInv
<1>2. Keyed(T) /\ TableOK(query)' /\ Keyed(U)
  <2>1. (\A e \in Entities : TableOK(e))'
    BY TablesOK, PTL
  <2>2. TableOK(query)'
    BY <1>1, <2>1
  <2>3. QED
    BY <1>1, <2>2, TablesOK DEF TableOK, Keyed
<1>3. PICK f \in Injection(T, U) :
        \A row \in T : ItemOf(query, f[row]) = ItemOf(query, row) /\ f[row].key = row.key
  BY <1>1, TableGrows
<1>4. f \in [T -> U] /\ \A r, s \in T : f[r] = f[s] => r = s
  BY DEF Injection, IsInjective
<1>5. Items(query) \subseteq Items(query)'
  BY <1>1, ItemsStay
<1>6. Rows' = Rows /\ \A row \in Rows' : Right(row)'
  BY <1>1, RightStays DEF PagesInv, Rows
<1>7. PulledItems' = PulledItems /\ \A s : ItemOf(query, s)' = ItemOf(query, s)
  BY <1>1, <1>6 DEF PulledItems, ItemOf
\* An owed row was an owed row before, and stood no further back.
<1>8. ASSUME reader # "idle", NEW new \in U, Owed(new)'
      PROVE  \E row \in T : Owed(row) /\ ItemOf(query, row) = ItemOf(query, new)
                            /\ Position(row, T) <= Position(new, U)
  <2>1. ItemOf(query, new) \in present /\ Own(new, U)
    BY <1>1, <1>7, <1>8 DEF Owed, Own
  <2>2. PICK row \in T : ItemOf(query, row) = ItemOf(query, new)
    <3>1. ItemOf(query, new) \in Items(query)
      BY <1>8, <2>1 DEF PagesInv
    <3>2. TableOK(query)
      BY <1>1, TablesOK
    <3>3. QED
      BY <3>1, <3>2 DEF TableOK
  <2>3. f[row] = new
    <3>1. f[row] \in U /\ ItemOf(query, f[row]) = ItemOf(query, new)
      BY <1>3, <1>4, <2>2
    <3>2. QED
      BY <1>2, <1>7, <3>1 DEF TableOK
  <2>4. Own(row, T)
    <3>1. SUFFICES ASSUME NEW s \in T, s.key = row.key PROVE s = row
      BY DEF Own
    <3>2. f[s] \in U /\ f[s].key = new.key
      BY <1>3, <1>4, <2>3, <3>1
    <3>3. f[s] = new
      BY <2>1, <3>2 DEF Own
    <3>4. QED
      BY <1>4, <2>3, <3>3
  <2>5. Position(row, T) <= Position(new, U)
    <3> HIDE DEF T, U
    <3>1. Position(row, T) <= Position(f[row], U)
      BY <1>2, <1>3, PositionGrows
    <3>2. QED
      BY <2>3, <3>1
  <2>6. QED
    BY <2>1, <2>2, <2>4, <2>5 DEF Owed
<1>9. ASSUME reader = "paging", NEW new \in U, Owed(new)', Position(new, U) < offset
      PROVE  ItemOf(query, new) \in PulledItems
  <2>1. PICK row \in T : /\ Owed(row) /\ ItemOf(query, row) = ItemOf(query, new)
                         /\ Position(row, T) <= Position(new, U)
    BY <1>8, <1>9
  <2>2. Position(row, T) \in Nat /\ Position(new, U) \in Nat
    BY <1>2, PositionIn
  <2>3. Position(row, T) < offset
    BY <1>1, <1>9, <2>1, <2>2
  <2>4. QED
    BY <1>9, <2>1, <2>3 DEF PagesInv
<1>10. ASSUME reader = "done", ~short, NEW new \in U, Owed(new)'
       PROVE  ItemOf(query, new) \in PulledItems
  BY <1>8, <1>10 DEF PagesInv
<1>11. PagesInv'
  <2> HIDE DEF T
  <2>1. \A row \in U : Position(row, Table(query))' = Position(row, U)
    BY DEF Position
  <2>2. QED
    BY <1>1, <1>5, <1>6, <1>7, <1>9, <1>10, <2>1 DEF PagesInv
<1>12. CopiesInv'
  <2>1. Cardinality(T) <= Cardinality(U)
    BY <1>2, FS_Injection DEF Keyed
  <2>2. Cardinality(T) \in Nat /\ Cardinality(U) \in Nat /\ Cardinality(pulled) \in Nat
    BY <1>2, FS_CardinalityType DEF Keyed, CopiesInv
  <2>3. Cardinality(Table(query))' = Cardinality(U)
    OBVIOUS
  <2>4. reader \in {"paging", "done"} => Cardinality(pulled) <= Cardinality(T)
    BY DEF CopiesInv
  <2> HIDE DEF T, U
  <2>5. QED
    BY <1>1, <2>1, <2>2, <2>3, <2>4 DEF CopiesInv, U
<1>13. QED
  BY <1>11, <1>12

LEMMA ReadBeginsPages ==
  ASSUME KeyInv, PagesInv, CopiesInv, NEW e \in Entities, ReadBegins(e)
  PROVE  PagesInv' /\ CopiesInv'
<1>1. /\ reader' = "paging" /\ query' = e /\ offset' = 0 /\ pulled' = {} /\ UNCHANGED vars
  BY DEF ReadBegins, PagesInv
<1>2. Items(query)' = Items(e) /\ Table(query)' = Table(e) /\ Rows' = {}
  BY <1>1 DEF Items, Table, Rows, vars, oracle, Known
<1>3. present' \subseteq Items(e)
  BY DEF ReadBegins, Items, Entities
<1>4. Keyed(Table(e))
  BY TablesOK DEF TableOK
<1>5. ASSUME NEW row \in Table(e) PROVE ~(Position(row, Table(e)) < 0)
  BY <1>4, PositionIn
<1>6. Cardinality({}) = 0 /\ IsFiniteSet({}) /\ Cardinality(Table(e)) \in Nat
  BY <1>4, FS_EmptySet, FS_CardinalityType DEF Keyed
<1>7. PagesInv'
  BY <1>1, <1>2, <1>3, <1>5 DEF PagesInv
<1>8. CopiesInv'
  BY <1>1, <1>2, <1>6 DEF CopiesInv
<1>9. QED
  BY <1>7, <1>8

\* A page adds one copy for each of its rows.
LEMMA CopiesAdded ==
  ASSUME CopiesInv, reader = "paging", offset \in Nat, NEW page, IsFiniteSet(page)
  PROVE  LET more == pulled \cup {[at |-> offset, row |-> r] : r \in page}
         IN  IsFiniteSet(more) /\ Cardinality(more) = offset + Cardinality(page)
<1> DEFINE new == {[at |-> offset, row |-> r] : r \in page}
           g == [r \in page |-> [at |-> offset, row |-> r]]
<1>1. \A r \in page : g[r] \in new
  OBVIOUS
<1>2. \A r, s \in page : g[r] = g[s] => r = s
  <2>1. \A r \in page : g[r].row = r
    OBVIOUS
  <2>2. QED
    BY <2>1
<1>3. \A c \in new : \E r \in page : g[r] = c
  OBVIOUS
<1>4. g \in Bijection(page, new)
  BY <1>1, <1>2, <1>3 DEF Bijection, Injection, Surjection, IsInjective
<1>4a. ExistsBijection(page, new)
  BY <1>4 DEF ExistsBijection
<1>5. \A c \in new : c.at = offset
  OBVIOUS
<1> HIDE DEF g, new
<1>6. IsFiniteSet(new) /\ Cardinality(new) = Cardinality(page)
  BY <1>4a, FS_Bijection
<1>7. pulled \cap new = {}
  BY <1>5 DEF CopiesInv
<1>8. IsFiniteSet(pulled) /\ Cardinality(pulled) = offset
  BY DEF CopiesInv
<1>9. IsFiniteSet(pulled \cup new) /\ Cardinality(pulled \cup new) = offset + Cardinality(page)
  <2>1. /\ IsFiniteSet(pulled \cup new)
        /\ Cardinality(pulled \cup new) = Cardinality(pulled) + Cardinality(new) - Cardinality({})
    <3>1. Cardinality(pulled \cup new)
            = Cardinality(pulled) + Cardinality(new) - Cardinality(pulled \cap new)
      BY <1>6, <1>8, FS_Union
    <3>2. IsFiniteSet(pulled \cup new)
      BY <1>6, <1>8, FS_Union
    <3>3. QED
      BY <1>7, <3>1, <3>2, Zenon
  <2>2. Cardinality({}) = 0 /\ Cardinality(page) \in Nat
    BY FS_EmptySet, FS_CardinalityType
  <2>3. QED
    BY <1>6, <1>8, <2>1, <2>2
<1>10. QED
  BY <1>9 DEF new

LEMMA PageReadPages ==
  ASSUME KeyInv, PagesInv, CopiesInv, PageRead
  PROVE  PagesInv' /\ CopiesInv'
<1> DEFINE T == Table(query)
<1>1. PICK page \in Pages(T) :
        /\ pulled' = pulled \cup {[at |-> offset, row |-> r] : r \in page}
        /\ LET capped == query = "ResolutionRequest" /\ offset + Cardinality(page) >= ScanCap
           IN  /\ reader' = IF capped \/ Cardinality(page) < PageSize THEN "done" ELSE "paging"
               /\ short' = (capped /\ Cardinality(page) = PageSize)
        /\ offset' = IF reader' = "done" THEN 0 ELSE offset + Cardinality(page)
  BY DEF PageRead
<1> DEFINE n == Cardinality(page)
           capped == query = "ResolutionRequest" /\ offset + n >= ScanCap
<1>2. reader = "paging" /\ UNCHANGED <<vars, query, present>>
  BY DEF PageRead
<1>3. /\ offset \in Nat /\ query \in Entities /\ PageSize \in Nat \ {0} /\ present \subseteq Items(query)
      /\ Cardinality(pulled) = offset /\ offset <= Cardinality(T)
  BY <1>2, ReadersAssumption DEF PagesInv, CopiesInv, ReadersAssumption
<1>4. TableOK(query) /\ Keyed(T) /\ Cardinality(T) \in Nat
  BY <1>3, TablesOK, FS_CardinalityType DEF TableOK, Keyed
<1>5. /\ T' = T /\ Items(query)' = Items(query) /\ \A row : Right(row)' = Right(row)
      /\ \A s : ItemOf(query, s)' = ItemOf(query, s)
  BY <1>2 DEF Items, Table, Right, ItemOf, vars, oracle, Known
<1>6. \A row \in T : Right(row)
  BY <1>3, TableRight
<1> HIDE DEF T
<1>7. /\ IsFiniteSet(page) /\ page \subseteq T /\ n \in Nat /\ n <= PageSize
      /\ offset + n <= Cardinality(T) /\ (n < PageSize => offset + n = Cardinality(T))
      /\ \A row \in T :
           Own(row, T) /\ offset <= Position(row, T) /\ Position(row, T) < offset + n => row \in page
  BY <1>3, <1>4, PageTakes
<1>8. Rows' = Rows \cup page
  <2>1. pulled' = pulled \cup {[at |-> offset, row |-> r] : r \in page}
    BY <1>1
  <2>2. ASSUME NEW x PROVE x \in Rows' <=> x \in Rows \cup page
    <3>1. x \in Rows' <=> \E copy \in pulled' : copy.row = x
      BY DEF Rows
    <3>2. x \in Rows <=> \E copy \in pulled : copy.row = x
      BY DEF Rows
    <3>3. x \in page <=> \E copy \in {[at |-> offset, row |-> r] : r \in page} : copy.row = x
      <4>1. \A r : [at |-> offset, row |-> r].row = r
        BY Zenon
      <4>2. QED
        BY <4>1, Zenon
    <3>4. QED
      BY <2>1, <3>1, <3>2, <3>3, Zenon
  <2>3. QED
    BY <2>2, Zenon
<1>9. \A row : Owed(row)' = Owed(row)
  BY <1>2, <1>5 DEF Owed, Own, T
<1>10. PulledItems' = PulledItems \cup {ItemOf(query, row) : row \in page}
  BY <1>5, <1>8 DEF PulledItems
<1>11. ASSUME NEW row \in T, Owed(row), Position(row, T) < offset + n
       PROVE  ItemOf(query, row) \in PulledItems'
  <2>1. Position(row, T) \in Nat
    BY <1>4, PositionIn
  <2>2. CASE Position(row, T) < offset
    BY <1>2, <1>10, <1>11, <2>2 DEF PagesInv, T
  <2>3. CASE offset <= Position(row, T)
    <3>1. row \in page
      BY <1>7, <1>11, <2>3 DEF Owed, T
    <3>2. QED
      BY <1>10, <3>1
  <2>4. QED
    BY <1>3, <2>1, <2>2, <2>3
<1>12. /\ reader' = IF capped \/ n < PageSize THEN "done" ELSE "paging"
       /\ short' = (capped /\ n = PageSize)
       /\ offset' = IF reader' = "done" THEN 0 ELSE offset + n
  BY <1>1
<1> HIDE DEF n, capped
<1>13. reader' \in {"done", "paging"} /\ offset' \in Nat
  BY <1>3, <1>7, <1>12
<1>14. reader' = "paging" => offset' = offset + n /\ n = PageSize
  BY <1>3, <1>7, <1>12
<1>15. ASSUME reader' = "done", ~short' PROVE offset + n = Cardinality(T)
  <2>1. n < PageSize \/ n = PageSize
    BY <1>3, <1>7
  <2>2. n < PageSize
    BY <1>12, <1>15, <2>1, Zenon
  <2>3. QED
    BY <1>7, <2>2
<1>16. PagesInv'
  <2>1. ASSUME reader' = "paging", NEW row \in T, Owed(row), Position(row, T) < offset'
        PROVE  ItemOf(query, row) \in PulledItems'
    BY <1>11, <1>14, <2>1
  <2>2. ASSUME reader' = "done", ~short', NEW row \in T, Owed(row)
        PROVE  ItemOf(query, row) \in PulledItems'
    <3>1. Position(row, T) < offset + n
      BY <1>4, <1>15, <2>2, PositionIn
    <3>2. QED
      BY <1>11, <2>2, <3>1
  <2>3. \A row \in Rows' : Right(row)'
    BY <1>5, <1>6, <1>7, <1>8 DEF PagesInv
  <2>4. T' = Table(query)' /\ \A row \in T : Position(row, Table(query))' = Position(row, T)
    BY <1>5 DEF Position, T
  <2>5. QED
    BY <1>2, <1>3, <1>5, <1>9, <1>13, <2>1, <2>2, <2>3, <2>4 DEF PagesInv
<1>17. CopiesInv'
  <2>1. IsFiniteSet(pulled') /\ Cardinality(pulled') = offset + n
    BY <1>1, <1>2, <1>3, <1>7, CopiesAdded DEF n
  <2>2. Cardinality(pulled') <= Cardinality(T)
    BY <1>7, <2>1
  <2>3. \A copy \in pulled' : copy.at \in Nat /\ copy.at <= offset
    <3>1. \A copy \in pulled : copy.at \in Nat /\ copy.at < offset
      BY <1>2 DEF CopiesInv
    <3>2. \A r \in page : [at |-> offset, row |-> r].at = offset
      OBVIOUS
    <3>3. QED
      BY <1>1, <1>3, <3>1, <3>2
  <2>4. reader' = "paging" => offset < offset' /\ Cardinality(pulled') = offset'
    BY <1>3, <1>14, <2>1
  <2>5. ASSUME reader' = "done", ~short' PROVE Cardinality(present') <= Cardinality(pulled')
    <3> DEFINE g == [x \in present |-> CHOOSE row \in T : ItemOf(query, row) = x]
    <3>1. \A x \in present : g[x] \in T /\ ItemOf(query, g[x]) = x
      <4>1. \A x \in present : \E row \in T : ItemOf(query, row) = x
        BY <1>3, <1>4 DEF TableOK, T
      <4>2. QED
        BY <4>1
    <3>2. g \in [present -> T] /\ \A x, y \in present : g[x] = g[y] => x = y
      <4>1. \A x \in present : g[x] \in T
        BY <3>1
      <4>2. \A x, y \in present : g[x] = g[y] => x = y
        <5> HIDE DEF g
        <5> QED
          BY <3>1
      <4>3. QED
        BY <4>1, <4>2
    <3> HIDE DEF g
    <3>3. g \in Injection(present, T)
      BY <3>2 DEF Injection, IsInjective
    <3>4. Cardinality(present) <= Cardinality(T)
      BY <1>4, <3>3, FS_Injection DEF Keyed
    <3>5. QED
      BY <1>2, <1>15, <2>1, <2>5, <3>4
  <2>6. Table(query)' = T
    BY <1>5 DEF T
  <2>7. QED
    BY <1>3, <1>13, <2>1, <2>2, <2>3, <2>4, <2>5, <2>6 DEF CopiesInv
<1>18. QED
  BY <1>16, <1>17

LEMMA GivenUpPages ==
  ASSUME KeyInv, PagesInv, CopiesInv, PageRetried \/ PageGivenUp
  PROVE  PagesInv' /\ CopiesInv'
<1>1. UNCHANGED <<vars, query>>
  BY DEF PageRetried, PageGivenUp
<1>2. /\ Table(query)' = Table(query) /\ Items(query)' = Items(query)
      /\ \A row : Right(row)' = Right(row) /\ ItemOf(query, row)' = ItemOf(query, row)
  BY <1>1 DEF Items, Table, Right, ItemOf, vars, oracle, Known
<1>3. CASE PageRetried
  <2>1. UNCHANGED <<reader, offset, pulled, short, present>>
    BY <1>3 DEF PageRetried
  <2>2. Rows' = Rows /\ PulledItems' = PulledItems
    BY <1>2, <2>1 DEF Rows, PulledItems
  <2>3. \A row : Owed(row)' = Owed(row) /\ Position(row, Table(query))' = Position(row, Table(query))
    BY <1>2, <2>1 DEF Owed, Own, Position
  <2>4. PagesInv'
    BY <1>1, <1>2, <2>1, <2>2, <2>3 DEF PagesInv
  <2>5. CopiesInv'
    BY <1>2, <2>1 DEF CopiesInv
  <2>6. QED
    BY <2>4, <2>5
<1>4. CASE PageGivenUp
  <2>1. /\ short' = TRUE /\ offset' = 0 /\ reader = "paging" /\ reader' \in {"done", "raised"}
        /\ (reader' = "done" /\ pulled' = pulled) \/ (reader' = "raised" /\ pulled' = {})
        /\ present' \subseteq present
    BY <1>4 DEF PageGivenUp
  <2>2. Rows' \subseteq Rows
    BY <2>1 DEF Rows
  <2>3. PagesInv'
    BY <1>1, <1>2, <2>1, <2>2 DEF PagesInv
  <2>4. CopiesInv'
    BY <1>2, <2>1, FS_EmptySet DEF CopiesInv
  <2>5. QED
    BY <2>3, <2>4
<1>5. QED
  BY <1>3, <1>4

LEMMA ReaderStep ==
  ASSUME ~SharedBlocks, KeyInv, PagesInv, CopiesInv, [IndexerStep \/ ReaderNext]_<<vars, readerVars>>
  PROVE  KeyInv' /\ PagesInv' /\ CopiesInv'
<1>1. CASE IndexerStep \/ UNCHANGED <<vars, readerVars>>
  <2>1. [Next]_vars /\ UNCHANGED readerVars
    BY <1>1 DEF IndexerStep
  <2>2. KeyInv'
    BY <2>1, KeyStep
  <2>3. QED
    BY <2>1, <2>2, IndexerPages
<1>2. CASE ReaderNext
  <2>1. UNCHANGED vars
    BY <1>2 DEF ReaderNext, ReadBegins, PageRead, PageRetried, PageGivenUp
  <2>2. KeyInv'
    BY <2>1, KeyStep
  <2>3. PagesInv' /\ CopiesInv'
    BY <1>2, ReadBeginsPages, PageReadPages, GivenUpPages DEF ReaderNext
  <2>4. QED
    BY <2>2, <2>3
<1>3. QED
  BY <1>1, <1>2

\* What was pulled and what was owed give what the readers make of it.
LEMMA ReadersMatch == ASSUME KeyInv, PagesInv, CopiesInv PROVE ReadersMatchChain
<1>1. ASSUME NEW q, hf_joinable(q) PROVE effective(q) = q
  BY <1>1, ReadersAssumption, NoneAssumption DEF hf_joinable, effective, ReadersAssumption
<1>2. ASSUME Done("Market")
      PROVE  /\ ~short => present \subseteq {r.question : r \in Rows}
             /\ \A r \in Rows : Bucket(r) = "eligible" => stage[r.question] = "resolved"
  <2>1. ASSUME ~short, NEW q \in present PROVE q \in {r.question : r \in Rows}
    <3>1. TableOK("Market") /\ query = "Market" /\ q \in Items("Market")
      BY <1>2, <2>1, TablesOK DEF Entities, Done, PagesInv
    <3>2. PICK row \in Table("Market") : ItemOf("Market", row) = q
      BY <3>1 DEF TableOK
    <3>3. Owed(row)
      BY <2>1, <3>1, <3>2, MarketsOwn DEF Owed
    <3>4. q \in PulledItems
      BY <1>2, <2>1, <3>1, <3>2, <3>3 DEF Done, PagesInv
    <3>5. QED
      BY <3>1, <3>4 DEF PulledItems, ItemOf
  <2>2. ASSUME NEW r \in Rows, Bucket(r) = "eligible" PROVE stage[r.question] = "resolved"
    <3>1. r.status = "RESOLVED"
      <4>1. CASE r.status = "DISPUTED"
        BY <2>2, <4>1 DEF Bucket
      <4>2. CASE r.status \in {"OPEN", "REQUESTED", "PROPOSED", "RESET"}
        BY <2>2, <4>2 DEF Bucket
      <4>3. r.status \in Statuses
        BY <1>2 DEF Done, PagesInv, Right
      <4>4. QED
        BY <4>1, <4>2, <4>3 DEF Statuses
    <3>2. QED
      BY <1>2, <3>1 DEF Done, PagesInv, Right
  <2>3. QED
    BY <2>1, <2>2
<1>3. ASSUME Done("Dispute")
      PROVE  /\ ~short => \A r \in Untied("Dispute") :
                  r.dispute \in present /\ hf_joinable(r.question) => \E l \in Labels : l.dispute = r.dispute
             /\ \A l \in Labels : l.dispute \in disputed /\ l.cid = l.dispute.question
  <2>1. \A r \in Rows : r.dispute \in disputed /\ r.question = r.dispute.question
    BY <1>3 DEF Done, PagesInv, Right
  <2>2. ASSUME NEW r \in Rows, hf_joinable(r.question)
        PROVE  [cid |-> effective(r.question), dispute |-> r.dispute] \in Labels
    BY <2>2 DEF Labels
  <2>3. ASSUME ~short, NEW r \in Untied("Dispute"), r.dispute \in present, hf_joinable(r.question)
        PROVE  \E l \in Labels : l.dispute = r.dispute
    <3>1. query = "Dispute" /\ r \in Table("Dispute") /\ Owed(r)
      BY <1>3, <2>3 DEF Done, Untied, Owed, Own, ItemOf
    <3>2. r.dispute \in PulledItems
      BY <1>3, <2>3, <3>1 DEF Done, PagesInv, ItemOf
    <3>3. PICK s \in Rows : s.dispute = r.dispute
      BY <3>1, <3>2 DEF PulledItems, ItemOf
    <3>4. r.question = r.dispute.question
      BY <3>1 DEF Table
    <3>5. [cid |-> effective(s.question), dispute |-> s.dispute] \in Labels
      BY <2>1, <2>2, <2>3, <3>3, <3>4
    <3>6. [cid |-> effective(s.question), dispute |-> s.dispute].dispute = r.dispute
      BY <3>3
    <3>7. QED
      BY <3>5, <3>6
  <2>4. ASSUME NEW l \in Labels PROVE l.dispute \in disputed /\ l.cid = l.dispute.question
    BY <1>1, <2>1 DEF Labels
  <2>5. QED
    BY <2>3, <2>4
<1>4. ASSUME Done("ResolutionRequest")
      PROVE  /\ ~short => \A r \in Untied("ResolutionRequest") :
                  r.question \in present /\ hf_joinable(r.question) => r.question \in Controls
             /\ \A d \in disputed : d.question \notin Controls
  <2>1. \A r \in Rows : r.question \in Questions /\ strikes[r.question] = 0
    BY <1>4 DEF Done, PagesInv, Right
  <2>2. ASSUME ~short, NEW r \in Untied("ResolutionRequest"), r.question \in present, hf_joinable(r.question)
        PROVE  r.question \in Controls
    <3>1. query = "ResolutionRequest" /\ r \in Table("ResolutionRequest") /\ Owed(r)
      BY <1>4, <2>2 DEF Done, Untied, Owed, Own, ItemOf
    <3>2. r.question \in PulledItems
      BY <1>4, <2>2, <3>1 DEF Done, PagesInv, ItemOf
    <3>3. PICK s \in Rows : s.question = r.question
      BY <3>1, <3>2 DEF PulledItems, ItemOf
    <3>4. QED
      BY <1>1, <2>2, <3>3 DEF Controls
  <2>3. ASSUME NEW q \in Controls PROVE strikes[q] = 0
    BY <1>1, <2>1 DEF Controls
  <2>4. QED
    BY <2>2, <2>3 DEF KeyInv, DisputesPlaced
<1>5. CopiesCounted
  BY DEF CopiesInv, CopiesCounted
<1>6. QED
  BY <1>2, <1>3, <1>4, <1>5 DEF ReadersMatchChain, NothingMissed, ReadersAgree

LEMMA ReaderInitPages == ReaderInit => PagesInv /\ CopiesInv
  BY FS_EmptySet DEF ReaderInit, PagesInv, CopiesInv, Entities, Rows

(* The readers that page through the index while it grows: a reader that    *)
(* came to the last page has every market, and every dispute and control    *)
(* whose timestamp no other shares, that was there when it began; it has    *)
(* counted as many rows as there were, with the copies; and what it takes   *)
(* for settled is so on the chain (run_recon, load_disputes,                *)
(* load_controls_from_indexer): for any number of adapters and questions,   *)
(* page size, cap, order of equal timestamps and interleaving with the      *)
(* handlers, while an adapter asks at most once per block.                  *)
THEOREM ReadersAlwaysMatch == ASSUME ~SharedBlocks PROVE ReaderSpec => []ReadersMatchChain
<1>1. Init /\ ReaderInit => KeyInv /\ PagesInv /\ CopiesInv
  BY KeyInit, ReaderInitPages
<1>2. KeyInv /\ PagesInv /\ CopiesInv /\ [IndexerStep \/ ReaderNext]_<<vars, readerVars>>
      => KeyInv' /\ PagesInv' /\ CopiesInv'
  BY ReaderStep
<1>3. KeyInv /\ PagesInv /\ CopiesInv => ReadersMatchChain
  BY ReadersMatch
<1>4. QED
  BY <1>1, <1>2, <1>3, PTL DEF ReaderSpec
=============================================================================
