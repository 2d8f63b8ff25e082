-------------------------- MODULE Execution_proofs --------------------------
(***************************************************************************)
(* Proofs about the Alpaca adapter under its trader and its operator, for  *)
(* any orders, symbols, numbers of attempts and kinds of exchange.         *)
(***************************************************************************)
EXTENDS AlpacaAdapter, TLAPS

TraderCalls ==
    [op : {"submit", "cancel"}, arg : Requests, attempt : 1..Attempts, late : BOOLEAN,
     paused : BOOLEAN, sent : BOOLEAN]

SweepCalls ==
    [op : {"cancel_all", "flatten"}, arg : {<<>>}, attempt : 1..Attempts, late : BOOLEAN,
     paused : BOOLEAN, sent : BOOLEAN]

CloseCalls ==
    [op : {"close"}, arg : Symbols \X Int, attempt : 1..Attempts, late : BOOLEAN,
     paused : BOOLEAN, sent : BOOLEAN]

OperatorCalls == SweepCalls \cup CloseCalls

Outers == [attempt : 0..Attempts, late : BOOLEAN, read : BOOLEAN, todo : SUBSET (Symbols \X Int)]

\* An attempt that will be followed by another is not the last one.
CallsFit ==
    /\ call \in [Callers -> TraderCalls \cup OperatorCalls \cup {NoCall}]
    /\ call[Trader] \in TraderCalls \cup {NoCall}
    /\ call[Operator] \in OperatorCalls \cup {NoCall}
    /\ \A c \in Callers : call[c] # NoCall /\ call[c].paused => call[c].attempt < Attempts

AlpacaTypes ==
    /\ CallsFit
    /\ venue \in [closeAll : BOOLEAN, refusesKnownId : BOOLEAN]
    /\ resting \in [Requests -> Nat] /\ accepted \in [Requests -> Nat]
    /\ placed \in [Requests -> Nat] /\ reported \in [Requests -> Nat]
    /\ net \in [Symbols -> Int] /\ kill \in KillStages
    /\ outer \in Outers /\ overlap \in BOOLEAN /\ doubled \in BOOLEAN

\* What the operator is in tells how far the kill switch has come.
StageFits ==
    /\ call[Operator].op = "cancel_all" => kill = "cancelling"
    /\ call[Operator].op = "flatten" => kill = "flattening" /\ venue.closeAll
    /\ call[Operator].op = "close" =>
          kill = "flattening" /\ ~venue.closeAll /\ outer.read /\ (call[Operator].sent => doubled)

\* A kill switch no placement runs beside finds no new order.
NobodyPlaces == ~overlap /\ kill \notin {"ready", "failed"} => call[Trader].op # "submit"

\* Once cancel_all() has returned, nothing rests.
NothingRestsAfterCancel ==
    ~overlap /\ kill \in {"flattening", "flat", "latched"} => resting = NothingRests

\* No closing order has been repeated, or the exchange tells it from a new one.
ClosesOnce == venue.refusesKnownId \/ ~doubled

\* What the fallback has still to close is what is open.
FallbackFits ==
    ~overlap /\ kill = "flattening" /\ ~venue.closeAll /\ outer.read /\ ClosesOnce =>
        /\ \A p \in outer.todo : p[2] = net[p[1]]
        /\ call[Operator].op = "close" =>
              /\ \A p \in outer.todo : p[1] # call[Operator].arg[1]
              /\ net[call[Operator].arg[1]] = IF call[Operator].sent THEN 0 ELSE call[Operator].arg[2]
        /\ \A s \in Symbols : net[s] # 0 =>
              <<s, net[s]>> \in outer.todo \/ (call[Operator].op = "close" /\ call[Operator].arg[1] = s)

\* Closings wait only once the positions have been read.
TodoRead == outer.todo # {} => outer.read

FlatMeansFlat ==
    ~overlap /\ kill \in {"flat", "latched"} /\ (venue.closeAll \/ ClosesOnce) => net = NoPosition

KillInv ==
    /\ AlpacaTypes /\ StageFits /\ NobodyPlaces /\ NothingRestsAfterCancel
    /\ TodoRead /\ FallbackFits /\ FlatMeansFlat

-----------------------------------------------------------------------------
LEMMA CallFacts ==
    ASSUME AlpacaTypes
    PROVE  /\ Trader \in Callers /\ Operator \in Callers /\ Trader # Operator
           /\ Callers = {Trader, Operator}
           /\ NoCall.op = "none"
           /\ \A c \in TraderCalls : c # NoCall /\ c.op \in {"submit", "cancel"} /\ c.arg \in Requests
           /\ \A c \in SweepCalls : c # NoCall /\ c.op \in {"cancel_all", "flatten"}
           /\ \A c \in CloseCalls : c # NoCall /\ c.op = "close" /\ c.arg \in Symbols \X Int
           /\ Attempts \in Nat \ {0}
<1>1. NoCall.op = "none"
  BY DEF NoCall
<1>2. \A c \in TraderCalls : c.op \in {"submit", "cancel"} /\ c.arg \in Requests
  BY DEF TraderCalls
<1>3. \A c \in SweepCalls : c.op \in {"cancel_all", "flatten"}
  BY DEF SweepCalls
<1>4. \A c \in CloseCalls : c.op = "close" /\ c.arg \in Symbols \X Int
  BY DEF CloseCalls
<1> QED BY <1>1, <1>2, <1>3, <1>4, TraderAssumption, AttemptsAssumption

\* A caller starts a call, changes it or leaves it.
LEMMA NewCall ==
    ASSUME AlpacaTypes, NEW c \in Callers, NEW x, call' = [call EXCEPT ![c] = x],
           c = Trader => x \in TraderCalls \cup {NoCall},
           c = Operator => x \in OperatorCalls \cup {NoCall},
           x # NoCall /\ x.paused => x.attempt < Attempts
    PROVE  CallsFit' /\ call'[c] = x /\ \A d \in Callers : d # c => call'[d] = call[d]
<1>1. CallsFit /\ call \in [Callers -> TraderCalls \cup OperatorCalls \cup {NoCall}]
  BY DEF AlpacaTypes, CallsFit
<1>2. call'[c] = x /\ \A d \in Callers : d # c => call'[d] = call[d]
  BY <1>1
<1>3. x \in TraderCalls \cup OperatorCalls \cup {NoCall}
  BY CallFacts
<1>4. call' \in [Callers -> TraderCalls \cup OperatorCalls \cup {NoCall}]
  BY <1>1, <1>3
<1>5. call'[Trader] \in TraderCalls \cup {NoCall} /\ call'[Operator] \in OperatorCalls \cup {NoCall}
  BY <1>1, <1>2, CallFacts DEF CallsFit
<1>6. \A d \in Callers : call'[d] # NoCall /\ call'[d].paused => call'[d].attempt < Attempts
  BY <1>1, <1>2 DEF CallsFit
<1> QED BY <1>2, <1>4, <1>5, <1>6 DEF CallsFit

LEMMA StartingFits ==
    ASSUME AlpacaTypes
    PROVE  /\ \A op \in {"submit", "cancel"}, r \in Requests : Starting(op, r) \in TraderCalls
           /\ \A op \in {"cancel_all", "flatten"} : Starting(op, <<>>) \in SweepCalls
           /\ \A p \in Symbols \X Int : Starting("close", p) \in CloseCalls
           /\ \A op, arg : Starting(op, arg).op = op /\ ~Starting(op, arg).paused
                           /\ Starting(op, arg).arg = arg /\ ~Starting(op, arg).sent
<1>1. 1 \in 1..Attempts
  BY CallFacts
<1> QED BY <1>1 DEF Starting, TraderCalls, SweepCalls, CloseCalls

\* What remains of a call when an attempt is over.
LEMMA AfterFacts ==
    ASSUME AlpacaTypes, NEW c \in Callers, Working(c), NEW outcome, NEW effect \in BOOLEAN,
           After(c, outcome, effect)
    PROVE  /\ CallsFit'
           /\ \A d \in Callers : d # c => call'[d] = call[d]
           /\ ~Retries(c, outcome) => call'[c] = NoCall
           /\ Retries(c, outcome) =>
                 /\ call'[c] # NoCall /\ call'[c].op = call[c].op /\ call'[c].arg = call[c].arg
                 /\ call'[c].sent = (call[c].sent \/ effect) /\ call'[c].paused
                 /\ call'[c].attempt = call[c].attempt /\ call[c].attempt < Attempts
<1> DEFINE x == IF Retries(c, outcome) THEN Pausing(c, effect) ELSE NoCall
<1>1. call' = [call EXCEPT ![c] = x]
  BY DEF After
<1>2. call[c] # NoCall /\ call[c] \in TraderCalls \cup OperatorCalls \cup {NoCall}
  BY DEF AlpacaTypes, CallsFit, Working
<1>3. /\ c = Trader => call[c] \in TraderCalls
      /\ c = Operator => call[c] \in OperatorCalls
  BY <1>2 DEF AlpacaTypes, CallsFit
<1>4. ASSUME Retries(c, outcome)
      PROVE  /\ x = [call[c] EXCEPT !.paused = TRUE, !.sent = @ \/ effect]
             /\ call[c].attempt < Attempts
  BY <1>4 DEF Pausing, Retries
<1>5. ASSUME Retries(c, outcome)
      PROVE  /\ x.op = call[c].op /\ x.arg = call[c].arg /\ x.sent = (call[c].sent \/ effect)
             /\ x.paused /\ x.attempt = call[c].attempt /\ call[c].attempt < Attempts
             /\ c = Trader => x \in TraderCalls
             /\ c = Operator => x \in OperatorCalls
  <2>1. ASSUME NEW S, NEW O, NEW A, S = [op : O, arg : A, attempt : 1..Attempts, late : BOOLEAN,
                     paused : BOOLEAN, sent : BOOLEAN], call[c] \in S
        PROVE  /\ x \in S /\ x.op = call[c].op /\ x.arg = call[c].arg /\ x.sent = (call[c].sent \/ effect)
               /\ x.paused /\ x.attempt = call[c].attempt
    BY <1>4, <1>5, <2>1
  <2>2. call[c] \in TraderCalls \/ call[c] \in SweepCalls \/ call[c] \in CloseCalls
    BY <1>2 DEF OperatorCalls
  <2>3. call[c] \in TraderCalls => x \in TraderCalls
    BY <2>1 DEF TraderCalls
  <2>4. call[c] \in SweepCalls => x \in SweepCalls
    BY <2>1 DEF SweepCalls
  <2>5. call[c] \in CloseCalls => x \in CloseCalls
    BY <2>1 DEF CloseCalls
  <2>6. /\ x.op = call[c].op /\ x.arg = call[c].arg /\ x.sent = (call[c].sent \/ effect)
        /\ x.paused /\ x.attempt = call[c].attempt
    BY <2>1, <2>2 DEF TraderCalls, SweepCalls, CloseCalls
  <2> QED BY <1>3, <1>4, <1>5, <2>3, <2>4, <2>5, <2>6 DEF OperatorCalls
<1>6. Retries(c, outcome) => x # NoCall
  BY <1>2, <1>3, <1>5, CallFacts DEF OperatorCalls
<1>7. ~Retries(c, outcome) => x = NoCall
  OBVIOUS
<1> HIDE DEF x
<1>8. CallsFit' /\ call'[c] = x /\ \A d \in Callers : d # c => call'[d] = call[d]
  BY <1>1, <1>5, <1>7, NewCall
<1> QED BY <1>5, <1>6, <1>7, <1>8

\* A call that times out or wakes up keeps what it does.
LEMMA SameCall ==
    ASSUME AlpacaTypes, NEW c \in Callers, TimesOut(c) \/ Wakes(c)
    PROVE  /\ CallsFit'
           /\ \A d \in Callers : d # c => call'[d] = call[d]
           /\ call'[c].op = call[c].op /\ call'[c].arg = call[c].arg /\ call'[c].sent = call[c].sent
           /\ call[c] # NoCall /\ call'[c] # NoCall /\ ~call'[c].paused
           /\ call'[c].attempt = IF call[c].paused THEN call[c].attempt + 1 ELSE call[c].attempt
<1> DEFINE x == IF TimesOut(c) THEN [call[c] EXCEPT !.late = TRUE]
                ELSE [call[c] EXCEPT !.paused = FALSE, !.late = FALSE, !.attempt = @ + 1]
<1>1. call[c] # NoCall /\ call[c] \in TraderCalls \cup OperatorCalls \cup {NoCall}
  BY DEF AlpacaTypes, CallsFit, TimesOut, Wakes, Working
<1>2. call' = [call EXCEPT ![c] = x]
  BY <1>1 DEF TimesOut, Wakes
<1>3. /\ c = Trader => call[c] \in TraderCalls
      /\ c = Operator => call[c] \in OperatorCalls
  BY <1>1 DEF AlpacaTypes, CallsFit
<1>4. ~TimesOut(c) => call[c].attempt < Attempts
  BY DEF AlpacaTypes, CallsFit, Wakes
<1>5. TimesOut(c) <=> ~call[c].paused
  BY DEF TimesOut, Wakes, Working
<1>6. ASSUME NEW S, NEW O, NEW A, S = [op : O, arg : A, attempt : 1..Attempts, late : BOOLEAN,
                     paused : BOOLEAN, sent : BOOLEAN], call[c] \in S
        PROVE  /\ x \in S /\ x.op = call[c].op /\ x.arg = call[c].arg /\ x.sent = call[c].sent
               /\ ~x.paused /\ x.attempt = IF call[c].paused THEN call[c].attempt + 1 ELSE call[c].attempt
  <2>1. Attempts \in Nat
    BY AttemptsAssumption
  <2>2. CASE TimesOut(c)
    BY <1>5, <1>6, <2>2
  <2>3. CASE ~TimesOut(c)
    <3>1. call[c].attempt \in 1..Attempts /\ call[c].attempt + 1 \in 1..Attempts
      BY <1>4, <1>6, <2>1, <2>3
    <3> QED BY <1>5, <1>6, <2>3, <3>1
  <2> QED BY <2>2, <2>3
<1> HIDE DEF x
<1>7. call[c] \in TraderCalls \/ call[c] \in SweepCalls \/ call[c] \in CloseCalls
  BY <1>1 DEF OperatorCalls
<1>8. /\ call[c] \in TraderCalls => x \in TraderCalls
      /\ call[c] \in SweepCalls => x \in SweepCalls
      /\ call[c] \in CloseCalls => x \in CloseCalls
  BY <1>6 DEF TraderCalls, SweepCalls, CloseCalls
<1>9. x.op = call[c].op /\ x.arg = call[c].arg /\ x.sent = call[c].sent /\ ~x.paused
      /\ x.attempt = IF call[c].paused THEN call[c].attempt + 1 ELSE call[c].attempt
  BY <1>6, <1>7 DEF TraderCalls, SweepCalls, CloseCalls
<1>10. x # NoCall /\ (c = Trader => x \in TraderCalls) /\ (c = Operator => x \in OperatorCalls)
  BY <1>3, <1>7, <1>8, CallFacts DEF OperatorCalls
<1>11. CallsFit' /\ call'[c] = x /\ \A d \in Callers : d # c => call'[d] = call[d]
  BY <1>2, <1>9, <1>10, NewCall
<1> QED BY <1>1, <1>9, <1>10, <1>11

\* The calls an action of the trader or the operator leaves.
LEMMA Kinds ==
    ASSUME AlpacaTypes
    PROVE  /\ call[Trader].op \in {"none", "submit", "cancel"}
           /\ call[Trader].op # "none" => call[Trader] \in TraderCalls
           /\ call[Operator].op \in {"none", "cancel_all", "flatten", "close"}
           /\ call[Operator].op = "close" => call[Operator] \in CloseCalls
           /\ call[Operator].op \in {"cancel_all", "flatten"} => call[Operator] \in SweepCalls
           /\ \A c \in Callers : call[c] = NoCall <=> call[c].op = "none"
           /\ \A c \in Callers : call[c] = NoCall \/ (call[c].attempt \in 1..Attempts /\ call[c].sent \in BOOLEAN
                                                   /\ call[c].paused \in BOOLEAN /\ call[c].late \in BOOLEAN)
<1>1. call[Trader] \in TraderCalls \cup {NoCall} /\ call[Operator] \in SweepCalls \cup CloseCalls \cup {NoCall}
  BY DEF AlpacaTypes, CallsFit, OperatorCalls
<1>2. \A c \in TraderCalls \cup SweepCalls \cup CloseCalls :
        c.attempt \in 1..Attempts /\ c.sent \in BOOLEAN /\ c.paused \in BOOLEAN /\ c.late \in BOOLEAN
  BY DEF TraderCalls, SweepCalls, CloseCalls
<1> QED BY <1>1, <1>2, CallFacts

\* A filled order moves one position.
LEMMA FilledFits ==
    ASSUME AlpacaTypes, NEW r \in Requests
    PROVE  Filled(net, Request[r].symbol, Request[r].side) \in [Symbols -> Int]
<1>1. Request[r] \in [symbol : Symbols, side : {1, -1}, type : {"market", "limit"}, clientId : BOOLEAN]
  BY TraderAssumption
<1>2. Request[r].symbol \in Symbols /\ Request[r].side \in Int
  BY <1>1
<1>3. net \in [Symbols -> Int]
  BY DEF AlpacaTypes
<1> QED BY <1>2, <1>3 DEF Filled

\* An attempt of the fallback that is over leaves a book of its own.
LEMMA FallbackEndsFits ==
    ASSUME AlpacaTypes, NEW outcome, FallbackEnds(outcome)
    PROVE  /\ outer' \in Outers /\ kill' \in KillStages /\ ~outer'.read /\ outer'.todo = {}
           /\ kill' \in {kill, "flat", "failed"}
           /\ kill' = kill \/ outer' = NoOuter
           /\ kill' = "flat" => kill = "flat" \/ outcome = "ok"
<1>1. outer \in Outers /\ kill \in KillStages /\ Attempts \in Nat
  BY AttemptsAssumption DEF AlpacaTypes
<1>2. NoOuter \in Outers /\ ~NoOuter.read /\ NoOuter.todo = {}
  BY <1>1 DEF NoOuter, Outers
<1>3. outer.attempt \in 0..Attempts
  BY <1>1 DEF Outers
<1>4. CASE outcome = "ok" /\ ~outer.late
  BY <1>2, <1>4 DEF FallbackEnds, KillStages
<1>5. CASE ~(outcome = "ok" /\ ~outer.late) /\ (outer.late \/ outcome = "retryable") /\ outer.attempt < Attempts
  <2>1. outer' = [NoOuter EXCEPT !.attempt = outer.attempt + 1] /\ kill' = kill
    BY <1>5 DEF FallbackEnds
  <2>2. outer.attempt + 1 \in 0..Attempts
    BY <1>1, <1>3, <1>5
  <2>3. outer' \in Outers /\ ~outer'.read /\ outer'.todo = {}
    BY <1>2, <2>1, <2>2 DEF Outers, NoOuter
  <2> QED BY <1>1, <2>1, <2>3
<1>6. CASE ~(outcome = "ok" /\ ~outer.late) /\ ~((outer.late \/ outcome = "retryable") /\ outer.attempt < Attempts)
  BY <1>2, <1>6 DEF FallbackEnds, KillStages
<1> QED BY <1>4, <1>5, <1>6

LEMMA TypesNext ==
    ASSUME AlpacaTypes, [AlpacaNext]_alpacaVars
    PROVE  AlpacaTypes'
<1>0. /\ venue \in [closeAll : BOOLEAN, refusesKnownId : BOOLEAN]
      /\ resting \in [Requests -> Nat] /\ accepted \in [Requests -> Nat]
      /\ placed \in [Requests -> Nat] /\ reported \in [Requests -> Nat]
      /\ net \in [Symbols -> Int] /\ kill \in KillStages
      /\ outer \in Outers /\ overlap \in BOOLEAN /\ doubled \in BOOLEAN
      /\ CallsFit
  BY DEF AlpacaTypes
<1>1. ASSUME NEW r \in Requests, PlaceOrder(r) PROVE AlpacaTypes'
  <2>1. CallsFit'
    BY <1>1, StartingFits, CallFacts, NewCall DEF PlaceOrder
  <2> QED BY <1>0, <1>1, <2>1 DEF AlpacaTypes, PlaceOrder
<1>2. ASSUME NEW r \in Requests, Cancel(r) PROVE AlpacaTypes'
  <2>1. CallsFit'
    BY <1>2, StartingFits, CallFacts, NewCall DEF Cancel
  <2> QED BY <1>0, <1>2, <2>1 DEF AlpacaTypes, Cancel
<1>3. ASSUME NEW r \in Requests, ExchangeFills(r) PROVE AlpacaTypes'
  <2>1. resting' \in [Requests -> Nat]
    BY <1>0, <1>3 DEF ExchangeFills
  <2>2. net' \in [Symbols -> Int]
    BY <1>3, FilledFits DEF ExchangeFills
  <2> QED BY <1>0, <1>3, <2>1, <2>2 DEF AlpacaTypes, ExchangeFills, CallsFit
<1>4. CASE SubmitWorks
  <2> DEFINE r == call[Trader].arg
  <2>1. r \in Requests /\ Working(Trader) /\ Trader \in Callers
    BY <1>4, Kinds, CallFacts DEF SubmitWorks
  <2>2. CallsFit'
    BY <1>4, <2>1, AfterFacts DEF SubmitWorks
  <2>3. accepted' \in [Requests -> Nat] /\ reported' \in [Requests -> Nat]
    <3>1. /\ accepted' = accepted \/ accepted' = [accepted EXCEPT ![r] = @ + 1]
          /\ reported' = reported \/ reported' = [reported EXCEPT ![r] = @ + 1]
      BY <1>4 DEF SubmitWorks, Accept
    <3>2. accepted[r] + 1 \in Nat /\ reported[r] + 1 \in Nat
      BY <1>0, <2>1
    <3> HIDE DEF r
    <3> QED BY <1>0, <3>1, <3>2
  <2>4. resting' \in [Requests -> Nat] /\ net' \in [Symbols -> Int]
    <3>1. CASE Accept(r)
      BY <1>0, <2>1, <3>1, FilledFits DEF Accept
    <3>2. CASE UNCHANGED <<resting, net>>
      BY <1>0, <3>2
    <3> QED BY <1>4, <3>1, <3>2 DEF SubmitWorks
  <2> QED BY <1>0, <1>4, <2>2, <2>3, <2>4 DEF AlpacaTypes, SubmitWorks
<1>5. CASE CancelWorks
  <2>1. call[Trader].arg \in Requests /\ Working(Trader) /\ Trader \in Callers
    BY <1>5, Kinds, CallFacts DEF CancelWorks
  <2>2. CallsFit'
    BY <1>5, <2>1, AfterFacts DEF CancelWorks
  <2>3. resting' \in [Requests -> Nat]
    BY <1>0, <1>5, <2>1 DEF CancelWorks
  <2> QED BY <1>0, <1>5, <2>2, <2>3 DEF AlpacaTypes, CancelWorks
<1>6. CASE EngageKillSwitch
  <2>1. CallsFit'
    <3>1. Starting("cancel_all", <<>>) \in OperatorCalls /\ ~Starting("cancel_all", <<>>).paused
      BY StartingFits DEF OperatorCalls
    <3> QED BY <1>6, <3>1, CallFacts, NewCall DEF EngageKillSwitch
  <2> QED BY <1>0, <1>6, <2>1 DEF AlpacaTypes, EngageKillSwitch, KillStages
<1>7. CASE CancelAllWorks
  <2>1. Working(Operator) /\ Operator \in Callers
    BY <1>7, CallFacts DEF CancelAllWorks
  <2>2. PICK outcome \in Outcomes, cancelled \in SUBSET AtExchange :
           /\ resting' = Without(cancelled)
           /\ \/ After(Operator, outcome, cancelled # {}) /\ UNCHANGED <<kill, outer>>
              \/ call' = [call EXCEPT ![Operator] = NoCall] /\ UNCHANGED outer /\ kill' = "failed"
              \/ /\ call' = [call EXCEPT ![Operator] = Flattening] /\ kill' = "flattening"
                 /\ outer' = IF venue.closeAll THEN NoOuter ELSE [NoOuter EXCEPT !.attempt = 1]
    BY <1>7 DEF CancelAllWorks, After
  <2>3. Flattening \in OperatorCalls \cup {NoCall} /\ (Flattening # NoCall => ~Flattening.paused)
    BY StartingFits DEF Flattening, OperatorCalls
  <2>4. CallsFit'
    <3> DEFINE effect == cancelled # {}
    <3>1. effect \in BOOLEAN
      OBVIOUS
    <3>2. \/ After(Operator, outcome, effect)
          \/ call' = [call EXCEPT ![Operator] = NoCall]
          \/ call' = [call EXCEPT ![Operator] = Flattening]
      BY <2>2
    <3> HIDE DEF effect
    <3> QED BY <1>0, <2>1, <2>3, <3>1, <3>2, AfterFacts, NewCall, CallFacts
  <2>5. outer' \in Outers
    <3>1. 1 \in 0..Attempts /\ 0 \in 0..Attempts
      BY AttemptsAssumption
    <3>2. NoOuter \in Outers /\ [NoOuter EXCEPT !.attempt = 1] \in Outers
      BY <3>1 DEF NoOuter, Outers
    <3> QED BY <1>0, <2>2, <3>2
  <2>6. kill' \in KillStages
    BY <1>0, <2>2 DEF KillStages
  <2>7. resting' \in [Requests -> Nat]
    BY <1>0, <2>2 DEF Without
  <2> QED BY <1>0, <1>7, <2>4, <2>5, <2>6, <2>7 DEF AlpacaTypes, CancelAllWorks
<1>8. CASE FlattenWorks
  <2>1. Working(Operator) /\ Operator \in Callers
    BY <1>8, CallFacts DEF FlattenWorks
  <2>2. CallsFit'
    BY <1>8, <2>1, AfterFacts DEF FlattenWorks
  <2>3. resting' \in [Requests -> Nat]
    BY <1>0, <1>8 DEF FlattenWorks, NothingRests
  <2>4. net' \in [Symbols -> Int] /\ kill' \in KillStages
    BY <1>0, <1>8 DEF FlattenWorks, KillStages
  <2> QED BY <1>0, <1>8, <2>2, <2>3, <2>4 DEF AlpacaTypes, FlattenWorks
<1>9. CASE FallbackReads
  <2>1. {<<s, net[s]>> : s \in Open} \in SUBSET (Symbols \X Int)
    BY <1>0 DEF Open
  <2>2. outer' \in Outers
    BY <1>0, <1>9, <2>1 DEF FallbackReads, Outers
  <2> QED BY <1>0, <1>9, <2>2 DEF AlpacaTypes, FallbackReads, CallsFit
<1>10. CASE FallbackCloses
  <2>1. PICK close \in outer.todo :
           /\ call' = [call EXCEPT ![Operator] = Starting("close", close)]
           /\ outer' = [outer EXCEPT !.todo = @ \ {close}]
    BY <1>10 DEF FallbackCloses
  <2>2. close \in Symbols \X Int /\ outer' \in Outers
    BY <1>0, <2>1 DEF Outers
  <2>3. Starting("close", close) \in OperatorCalls /\ ~Starting("close", close).paused
    BY <2>2, StartingFits DEF OperatorCalls
  <2>4. CallsFit'
    BY <2>1, <2>3, CallFacts, NewCall
  <2> QED BY <1>0, <1>10, <2>2, <2>4 DEF AlpacaTypes, FallbackCloses
<1>11. CASE FallbackTimesOut
  <2>1. outer' \in Outers
    BY <1>0, <1>11 DEF FallbackTimesOut, Outers
  <2> QED BY <1>0, <1>11, <2>1 DEF AlpacaTypes, FallbackTimesOut, CallsFit
<1>12. CASE FallbackReadFails
  BY <1>0, <1>12, FallbackEndsFits DEF AlpacaTypes, FallbackReadFails, CallsFit
<1>13. CASE FallbackDone
  BY <1>0, <1>13, FallbackEndsFits DEF AlpacaTypes, FallbackDone, CallsFit
<1>14. CASE CloseWorks
  <2>1. Working(Operator) /\ Operator \in Callers /\ call[Operator].arg \in Symbols \X Int
    BY <1>14, CallFacts, Kinds DEF CloseWorks
  <2>2. CallsFit'
    BY <1>14, <2>1, AfterFacts DEF CloseWorks
  <2>3. net' \in [Symbols -> Int]
    BY <1>0, <1>14, <2>1 DEF CloseWorks
  <2>4. outer' \in Outers /\ kill' \in KillStages
    BY <1>0, <1>14, FallbackEndsFits DEF CloseWorks
  <2>5. doubled' \in BOOLEAN
    BY <1>14 DEF CloseWorks
  <2> QED BY <1>0, <1>14, <2>2, <2>3, <2>4, <2>5 DEF AlpacaTypes, CloseWorks
<1>15. CASE LatchBreaker
  BY <1>0, <1>15 DEF AlpacaTypes, LatchBreaker, CallsFit, KillStages
<1>16. ASSUME NEW c \in Callers, CallTimesOut(c) \/ CallWakes(c) PROVE AlpacaTypes'
  <2>1. CallsFit'
    BY <1>16, SameCall DEF CallTimesOut, CallWakes
  <2> QED BY <1>0, <1>16, <2>1 DEF AlpacaTypes, CallTimesOut, CallWakes, Rest
<1>17. CASE UNCHANGED alpacaVars
  BY <1>0, <1>17 DEF AlpacaTypes, alpacaVars, CallsFit
<1> QED BY <1>1, <1>2, <1>3, <1>4, <1>5, <1>6, <1>7, <1>8, <1>9, <1>10, <1>11, <1>12, <1>13, <1>14,
           <1>15, <1>16, <1>17 DEF AlpacaNext, OperatorWorks

-----------------------------------------------------------------------------
(* What the kill switch leaves.                                            *)

\* The fallback sees the same book when the operator and the stages stay.
LEMMA StagesStay ==
    ASSUME KillInv, AlpacaTypes', UNCHANGED <<venue, kill, doubled>>,
           \/ UNCHANGED <<net, outer>>
           \/ outer' = [outer EXCEPT !.late = TRUE] /\ UNCHANGED net,
           call'[Operator].op = call[Operator].op, call'[Operator].arg = call[Operator].arg,
           call'[Operator].sent = call[Operator].sent,
           overlap => overlap',
           NobodyPlaces', NothingRestsAfterCancel'
    PROVE  KillInv'
<1>1. outer'.todo = outer.todo /\ outer'.read = outer.read /\ net' = net
  BY DEF KillInv, AlpacaTypes, Outers
<1>2. overlap \in BOOLEAN /\ overlap' \in BOOLEAN
  BY DEF KillInv, AlpacaTypes
<1>3. StageFits' /\ TodoRead'
  BY <1>1 DEF KillInv, StageFits, TodoRead
<1>4. FallbackFits'
  BY <1>1, <1>2 DEF KillInv, FallbackFits, ClosesOnce
<1>5. FlatMeansFlat'
  BY <1>1, <1>2 DEF KillInv, FlatMeansFlat, ClosesOnce, NoPosition
<1> QED BY <1>3, <1>4, <1>5 DEF KillInv

\* Before the fallback, and beside a placement, nothing is said of the book.
LEMMA BookFree ==
    ASSUME KillInv, AlpacaTypes', UNCHANGED <<venue, kill, overlap, outer, doubled>>,
           overlap \/ kill \notin {"flattening", "flat", "latched"},
           call'[Operator] = call[Operator], NobodyPlaces'
    PROVE  KillInv'
BY DEF KillInv, StageFits, NothingRestsAfterCancel, TodoRead, FallbackFits, FlatMeansFlat

\* Nothing the trader or the exchange does at the wrong moment goes unseen.
LEMMA TraderKeeps ==
    ASSUME KillInv, AlpacaTypes',
           \/ \E r \in Requests : PlaceOrder(r) \/ Cancel(r) \/ ExchangeFills(r)
           \/ SubmitWorks \/ CancelWorks
           \/ \E c \in Callers : CallTimesOut(c) \/ CallWakes(c)
    PROVE  KillInv'
<1>0. AlpacaTypes /\ NobodyPlaces /\ NothingRestsAfterCancel /\ resting \in [Requests -> Nat]
      /\ resting' \in [Requests -> Nat] /\ overlap \in BOOLEAN
  BY DEF KillInv, AlpacaTypes
<1>a. Trader \in Callers /\ Operator \in Callers /\ Trader # Operator
  BY <1>0, CallFacts
<1>1. ASSUME NEW r \in Requests, PlaceOrder(r) PROVE KillInv'
  <2>1. call'[Operator] = call[Operator]
    <3>1. Starting("submit", r) \in TraderCalls /\ ~Starting("submit", r).paused
      BY <1>0, StartingFits
    <3> QED BY <1>0, <1>1, <1>a, <3>1, NewCall DEF PlaceOrder
  <2>2. NobodyPlaces' /\ NothingRestsAfterCancel'
    BY <1>0, <1>1 DEF PlaceOrder, NobodyPlaces, NothingRestsAfterCancel, NothingRests
  <2> QED BY <1>1, <2>1, <2>2, StagesStay DEF PlaceOrder
<1>2. ASSUME NEW r \in Requests, Cancel(r) PROVE KillInv'
  <2>1. call'[Operator] = call[Operator] /\ call'[Trader].op = "cancel"
    <3>1. Starting("cancel", r) \in TraderCalls /\ Starting("cancel", r).op = "cancel" /\ ~Starting("cancel", r).paused
      BY <1>0, StartingFits
    <3> QED BY <1>0, <1>2, <1>a, <3>1, NewCall DEF Cancel
  <2>2. NobodyPlaces' /\ NothingRestsAfterCancel'
    BY <1>0, <1>2, <2>1 DEF Cancel, NobodyPlaces, NothingRestsAfterCancel, NothingRests
  <2> QED BY <1>2, <2>1, <2>2, StagesStay DEF Cancel
<1>3. ASSUME NEW r \in Requests, ExchangeFills(r) PROVE KillInv'
  <2>1. overlap \/ kill \notin {"flattening", "flat", "latched"}
    BY <1>0, <1>3 DEF ExchangeFills, NothingRestsAfterCancel, NothingRests
  <2>2. NobodyPlaces'
    BY <1>0, <1>3 DEF ExchangeFills, NobodyPlaces
  <2> QED BY <1>3, <2>1, <2>2, BookFree DEF ExchangeFills
<1>4. CASE SubmitWorks
  <2>1. call[Trader].op = "submit" /\ Working(Trader) /\ UNCHANGED <<venue, kill, overlap, outer, doubled>>
    BY <1>4 DEF SubmitWorks
  <2>2. overlap \/ kill \in {"ready", "failed"}
    BY <1>0, <2>1 DEF NobodyPlaces
  <2>3. \E outcome \in Outcomes, effect \in BOOLEAN : After(Trader, outcome, effect)
    BY <1>4 DEF SubmitWorks, Outcomes
  <2>4. call'[Operator] = call[Operator]
    BY <1>0, <1>a, <2>1, <2>3, AfterFacts
  <2>5. NobodyPlaces'
    BY <2>1, <2>2 DEF NobodyPlaces
  <2> QED BY <2>1, <2>2, <2>4, <2>5, BookFree
<1>5. CASE CancelWorks
  <2>1. /\ call[Trader].op = "cancel" /\ Working(Trader)
        /\ UNCHANGED <<venue, net, kill, overlap, outer, doubled>>
    BY <1>5 DEF CancelWorks
  <2>2. PICK outcome \in Outcomes, effect \in BOOLEAN :
          /\ effect => resting[call[Trader].arg] > 0
          /\ resting' = IF effect THEN [resting EXCEPT ![call[Trader].arg] = @ - 1] ELSE resting
          /\ After(Trader, outcome, effect)
    BY <1>5 DEF CancelWorks
  <2>3. /\ call'[Operator] = call[Operator]
        /\ call'[Trader].op # "submit"
    BY <1>0, <1>a, <2>1, <2>2, AfterFacts, CallFacts
  <2>4. NobodyPlaces'
    BY <2>3 DEF NobodyPlaces
  <2>5. call[Trader].arg \in Requests
    BY <1>0, <2>1, Kinds, CallFacts
  <2>6. NothingRestsAfterCancel'
    BY <1>0, <2>1, <2>2, <2>5 DEF NothingRestsAfterCancel, NothingRests
  <2> QED BY <2>1, <2>3, <2>4, <2>6, StagesStay
<1>6. ASSUME NEW c \in Callers, CallTimesOut(c) \/ CallWakes(c) PROVE KillInv'
  <2>1. UNCHANGED Rest /\ (TimesOut(c) \/ Wakes(c))
    BY <1>6 DEF CallTimesOut, CallWakes
  <2>2. /\ call'[Operator].op = call[Operator].op /\ call'[Operator].arg = call[Operator].arg
        /\ call'[Operator].sent = call[Operator].sent /\ call'[Trader].op = call[Trader].op
    BY <1>0, <1>a, <2>1, SameCall
  <2>3. NobodyPlaces' /\ NothingRestsAfterCancel'
    BY <1>0, <2>1, <2>2 DEF Rest, NobodyPlaces, NothingRestsAfterCancel, NothingRests
  <2> QED BY <2>1, <2>2, <2>3, StagesStay DEF Rest
<1> QED BY <1>1, <1>2, <1>3, <1>4, <1>5, <1>6

\* cancel_all() is over when nothing rests, or the switch has failed.
LEMMA CancelAllKeeps ==
    ASSUME KillInv, AlpacaTypes', CancelAllWorks
    PROVE  KillInv'
<1>0. AlpacaTypes /\ StageFits /\ NobodyPlaces /\ Trader \in Callers /\ Operator \in Callers /\ Trader # Operator
      /\ Working(Operator) /\ call[Operator].op = "cancel_all" /\ kill = "cancelling"
  BY CallFacts DEF KillInv, CancelAllWorks, StageFits
<1>1. PICK outcome \in Outcomes, cancelled \in SUBSET AtExchange :
        /\ outcome = "ok" => cancelled = AtExchange
        /\ resting' = Without(cancelled)
        /\ \/ After(Operator, outcome, cancelled # {}) /\ UNCHANGED <<kill, outer>> /\ Retries(Operator, outcome)
           \/ call' = [call EXCEPT ![Operator] = NoCall] /\ UNCHANGED outer /\ kill' = "failed"
           \/ /\ call' = [call EXCEPT ![Operator] = Flattening] /\ kill' = "flattening"
              /\ ~Retries(Operator, outcome) /\ ~Raises(Operator, outcome)
              /\ outer' = IF venue.closeAll THEN NoOuter ELSE [NoOuter EXCEPT !.attempt = 1]
  BY DEF CancelAllWorks, After
<1>2. UNCHANGED <<venue, net, overlap, doubled>>
  BY DEF CancelAllWorks
<1>3. CASE After(Operator, outcome, cancelled # {}) /\ UNCHANGED <<kill, outer>> /\ Retries(Operator, outcome)
  <2>1. call'[Operator].op = "cancel_all" /\ call'[Trader] = call[Trader]
    <3> DEFINE effect == cancelled # {}
    <3>1. effect \in BOOLEAN /\ After(Operator, outcome, effect)
      BY <1>3
    <3> HIDE DEF effect
    <3> QED BY <1>0, <1>3, <3>1, AfterFacts
  <2> QED BY <1>0, <1>2, <1>3, <2>1
          DEF KillInv, StageFits, NobodyPlaces, NothingRestsAfterCancel, TodoRead, FallbackFits, FlatMeansFlat
<1>4. CASE call' = [call EXCEPT ![Operator] = NoCall] /\ UNCHANGED outer /\ kill' = "failed"
  <2>1. call'[Operator].op = "none"
    BY <1>0, <1>4, NewCall, CallFacts
  <2> QED BY <1>4, <2>1
          DEF KillInv, StageFits, NobodyPlaces, NothingRestsAfterCancel, TodoRead, FallbackFits, FlatMeansFlat
<1>5. CASE /\ call' = [call EXCEPT ![Operator] = Flattening] /\ kill' = "flattening"
           /\ ~Retries(Operator, outcome) /\ ~Raises(Operator, outcome)
           /\ outer' = IF venue.closeAll THEN NoOuter ELSE [NoOuter EXCEPT !.attempt = 1]
  <2>1. outcome = "ok"
    BY <1>5 DEF Raises, Answer
  <2>2. resting' = NothingRests
    <3>1. resting \in [Requests -> Nat] /\ cancelled = AtExchange
      BY <1>0, <1>1, <2>1 DEF AlpacaTypes
    <3>2. \A r \in Requests : Without(cancelled)[r] = 0
      BY <3>1 DEF Without, AtExchange
    <3> QED BY <1>1, <3>2 DEF Without, NothingRests
  <2>3. Flattening \in OperatorCalls \cup {NoCall} /\ (Flattening # NoCall => ~Flattening.paused)
    BY <1>0, StartingFits DEF Flattening, OperatorCalls
  <2>4. call'[Operator] = Flattening /\ call'[Trader] = call[Trader]
    BY <1>0, <1>5, <2>3, NewCall
  <2>5. Flattening.op = IF venue.closeAll THEN "flatten" ELSE "none"
    BY <1>0, StartingFits, CallFacts DEF Flattening
  <2>6. ~outer'.read /\ outer'.todo = {}
    BY <1>5 DEF NoOuter
  <2>7. StageFits' /\ NobodyPlaces' /\ NothingRestsAfterCancel'
    BY <1>0, <1>2, <1>5, <2>2, <2>4, <2>5 DEF StageFits, NobodyPlaces, NothingRestsAfterCancel, NothingRests
  <2>8. TodoRead' /\ FallbackFits' /\ FlatMeansFlat'
    BY <1>5, <2>6 DEF TodoRead, FallbackFits, FlatMeansFlat
  <2> QED BY <2>7, <2>8 DEF KillInv
<1> QED BY <1>1, <1>3, <1>4, <1>5

\* flatten() through the client is over when no position is open, or has failed.
LEMMA FlattenKeeps ==
    ASSUME KillInv, AlpacaTypes', FlattenWorks
    PROVE  KillInv'
<1>0. AlpacaTypes /\ StageFits /\ NobodyPlaces /\ NothingRestsAfterCancel
      /\ Trader \in Callers /\ Operator \in Callers /\ Trader # Operator
      /\ Working(Operator) /\ call[Operator].op = "flatten" /\ kill = "flattening" /\ venue.closeAll
      /\ net \in [Symbols -> Int]
  BY CallFacts DEF KillInv, FlattenWorks, StageFits, AlpacaTypes
<1>1. PICK outcome \in Outcomes, closed \in SUBSET Open, cancelled \in BOOLEAN :
        /\ outcome = "ok" => closed = Open
        /\ resting' = IF cancelled THEN NothingRests ELSE resting
        /\ net' = [s \in Symbols |-> IF s \in closed THEN 0 ELSE net[s]]
        /\ After(Operator, outcome, cancelled)
        /\ kill' = IF Retries(Operator, outcome) THEN kill
                   ELSE IF Raises(Operator, outcome) THEN "failed" ELSE "flat"
  BY DEF FlattenWorks
<1>2. UNCHANGED <<venue, outer, overlap, doubled>>
  BY DEF FlattenWorks
<1>3. call'[Trader] = call[Trader]
  BY <1>0, <1>1, AfterFacts
<1>4. NobodyPlaces' /\ NothingRestsAfterCancel'
  BY <1>0, <1>1, <1>2, <1>3 DEF NobodyPlaces, NothingRestsAfterCancel, NothingRests
<1>5. FallbackFits' /\ TodoRead'
  BY <1>0, <1>2 DEF KillInv, FallbackFits, TodoRead
<1>6. StageFits'
  <2>1. CASE Retries(Operator, outcome)
    BY <1>0, <1>1, <1>2, <2>1, AfterFacts DEF StageFits
  <2>2. CASE ~Retries(Operator, outcome)
    <3>1. call'[Operator].op = "none"
      BY <1>0, <1>1, <2>2, AfterFacts, CallFacts
    <3> QED BY <3>1 DEF StageFits
  <2> QED BY <2>1, <2>2
<1>7. FlatMeansFlat'
  <2>1. SUFFICES ASSUME kill' = "flat" PROVE net' = NoPosition
    BY <1>0, <1>1 DEF FlatMeansFlat, NoPosition
  <2>2. outcome = "ok"
    BY <1>0, <1>1, <2>1 DEF Raises, Answer
  <2> QED BY <1>0, <1>1, <2>2 DEF NoPosition, Open
<1> QED BY <1>4, <1>5, <1>6, <1>7 DEF KillInv

\* The fallback reads what is open, and takes one closing after another.
LEMMA FallbackStepKeeps ==
    ASSUME KillInv, AlpacaTypes', FallbackReads \/ FallbackCloses \/ FallbackTimesOut
    PROVE  KillInv'
<1>0. AlpacaTypes /\ Trader \in Callers /\ Operator \in Callers /\ Trader # Operator
      /\ net \in [Symbols -> Int] /\ outer \in Outers /\ resting \in [Requests -> Nat]
  BY CallFacts DEF KillInv, AlpacaTypes
<1>1. CASE FallbackTimesOut
  <2>1. /\ UNCHANGED <<call, venue, resting, net, accepted, placed, reported, kill, overlap, doubled>>
        /\ outer' = [outer EXCEPT !.late = TRUE]
    BY <1>1 DEF FallbackTimesOut
  <2>2. NobodyPlaces' /\ NothingRestsAfterCancel'
    BY <2>1 DEF KillInv, NobodyPlaces, NothingRestsAfterCancel, NothingRests
  <2> QED BY <2>1, <2>2, StagesStay
<1>2. CASE FallbackReads
  <2>1. /\ UNCHANGED <<call, venue, resting, net, accepted, placed, reported, kill, overlap, doubled>>
        /\ kill = "flattening" /\ call[Operator] = NoCall
        /\ outer'.todo = {<<s, net[s]>> : s \in Open}
    BY <1>0, <1>2 DEF FallbackReads, InFallback, Outers
  <2>2. NobodyPlaces' /\ NothingRestsAfterCancel' /\ FlatMeansFlat'
    BY <2>1 DEF KillInv, NobodyPlaces, NothingRestsAfterCancel, NothingRests, FlatMeansFlat
  <2>3. call[Operator].op = "none"
    BY <1>0, <2>1, CallFacts
  <2>4. StageFits' /\ TodoRead'
    BY <1>0, <1>2, <2>1, <2>3 DEF StageFits, TodoRead, FallbackReads, Outers
  <2>5. FallbackFits'
    <3>1. \A p \in outer'.todo : p[2] = net'[p[1]]
      BY <2>1
    <3>2. \A s \in Symbols : net'[s] # 0 => <<s, net'[s]>> \in outer'.todo
      BY <2>1 DEF Open
    <3> QED BY <2>1, <2>3, <3>1, <3>2 DEF FallbackFits
  <2> QED BY <2>2, <2>4, <2>5 DEF KillInv
<1>3. CASE FallbackCloses
  <2>1. PICK close \in outer.todo :
          /\ call' = [call EXCEPT ![Operator] = Starting("close", close)]
          /\ outer' = [outer EXCEPT !.todo = @ \ {close}]
    BY <1>3 DEF FallbackCloses
  <2>2. /\ UNCHANGED <<venue, resting, net, accepted, placed, reported, kill, overlap, doubled>>
        /\ kill = "flattening" /\ call[Operator] = NoCall /\ ~venue.closeAll
    BY <1>3 DEF FallbackCloses, InFallback
  <2>3. close \in Symbols \X Int /\ outer'.todo = outer.todo \ {close} /\ outer'.read = outer.read
        /\ outer.todo \in SUBSET (Symbols \X Int)
    BY <1>0, <2>1 DEF Outers
  <2>4. Starting("close", close) \in OperatorCalls /\ ~Starting("close", close).paused
        /\ Starting("close", close).op = "close" /\ Starting("close", close).arg = close
        /\ ~Starting("close", close).sent
    BY <1>0, <2>3, StartingFits DEF OperatorCalls
  <2>5. call'[Operator] = Starting("close", close) /\ call'[Trader] = call[Trader]
    BY <1>0, <2>1, <2>4, NewCall
  <2>6. call[Operator].op = "none"
    BY <1>0, <2>2, CallFacts
  <2>7. outer.read
    BY <2>1 DEF KillInv, TodoRead
  <2>8. NobodyPlaces' /\ NothingRestsAfterCancel' /\ FlatMeansFlat' /\ StageFits' /\ TodoRead'
    BY <2>2, <2>3, <2>4, <2>5, <2>7
       DEF KillInv, TodoRead, NobodyPlaces, NothingRestsAfterCancel, NothingRests, FlatMeansFlat, StageFits
  <2>9. ASSUME ~overlap, ClosesOnce PROVE /\ \A p \in outer.todo : p[2] = net[p[1]]
                                          /\ \A s \in Symbols : net[s] # 0 => <<s, net[s]>> \in outer.todo
    BY <2>2, <2>6, <2>7, <2>9 DEF KillInv, FallbackFits
  <2>10. FallbackFits'
    <3> SUFFICES ASSUME ~overlap, ClosesOnce
                 PROVE  /\ \A p \in outer'.todo : p[2] = net[p[1]] /\ p[1] # close[1]
                        /\ net[close[1]] = close[2]
                        /\ \A s \in Symbols : net[s] # 0 => <<s, net[s]>> \in outer'.todo \/ close[1] = s
      BY <2>2, <2>4, <2>5 DEF FallbackFits, ClosesOnce
    <3>1. net[close[1]] = close[2] /\ close = <<close[1], close[2]>>
      BY <2>1, <2>3, <2>9
    <3>2. ASSUME NEW p \in outer'.todo PROVE p[2] = net[p[1]] /\ p[1] # close[1]
      <4>1. p \in outer.todo /\ p # close /\ p = <<p[1], p[2]>> /\ p[2] = net[p[1]]
        BY <2>3, <2>9
      <4> QED BY <3>1, <4>1
    <3>3. ASSUME NEW s \in Symbols, net[s] # 0 PROVE <<s, net[s]>> \in outer'.todo \/ close[1] = s
      BY <2>3, <2>9, <3>1, <3>3
    <3> QED BY <3>1, <3>2, <3>3
  <2> QED BY <2>8, <2>10 DEF KillInv
<1> QED BY <1>1, <1>2, <1>3

\* The fallback is over when nothing is left to close; else it starts again or fails.
LEMMA FallbackOverKeeps ==
    ASSUME KillInv, AlpacaTypes', FallbackReadFails \/ FallbackDone
    PROVE  KillInv'
<1>0. AlpacaTypes /\ Trader \in Callers /\ Operator \in Callers /\ net \in [Symbols -> Int]
  BY CallFacts DEF KillInv, AlpacaTypes
<1>1. /\ UNCHANGED <<call, venue, resting, net, overlap, doubled>>
      /\ kill = "flattening" /\ call[Operator] = NoCall /\ ~venue.closeAll
  BY DEF FallbackReadFails, FallbackDone, InFallback
<1>2. PICK outcome \in Outcomes : FallbackEnds(outcome) /\ (outcome = "ok" => outer.read /\ outer.todo = {})
  BY DEF FallbackReadFails, FallbackDone, Outcomes
<1>3. call'[Operator].op = "none" /\ call[Operator].op = "none"
  BY <1>0, <1>1, CallFacts
<1>4. ~outer'.read /\ outer'.todo = {} /\ kill' \in {"flattening", "flat", "failed"} /\ (kill' = "flat" => outcome = "ok")
  BY <1>0, <1>1, <1>2, FallbackEndsFits
<1>5. NobodyPlaces' /\ NothingRestsAfterCancel' /\ StageFits' /\ TodoRead' /\ FallbackFits'
  BY <1>1, <1>3, <1>4
     DEF KillInv, TodoRead, NobodyPlaces, NothingRestsAfterCancel, NothingRests, StageFits, FallbackFits
<1>6. FlatMeansFlat'
  <2> SUFFICES ASSUME kill' = "flat", ~overlap, ClosesOnce PROVE net = NoPosition
    BY <1>1, <1>4 DEF FlatMeansFlat, ClosesOnce, NoPosition
  <2>1. outer.read /\ outer.todo = {}
    BY <1>2, <1>4
  <2>2. \A s \in Symbols : net[s] = 0
    BY <1>1, <1>3, <2>1 DEF KillInv, FallbackFits
  <2> QED BY <1>0, <2>2 DEF NoPosition
<1> QED BY <1>5, <1>6 DEF KillInv

\* A closing order takes the position it was made for to zero, once.
LEMMA CloseKeeps ==
    ASSUME KillInv, AlpacaTypes', CloseWorks
    PROVE  KillInv'
<1>0. AlpacaTypes /\ Trader \in Callers /\ Operator \in Callers /\ Trader # Operator
      /\ net \in [Symbols -> Int] /\ net' \in [Symbols -> Int] /\ call[Operator].arg \in Symbols \X Int
      /\ Working(Operator) /\ call[Operator].op = "close" /\ call[Operator].sent \in BOOLEAN
      /\ outer.todo \in SUBSET (Symbols \X Int) /\ doubled \in BOOLEAN
  BY CallFacts, Kinds DEF KillInv, AlpacaTypes, CloseWorks, Outers
<1> DEFINE s == call[Operator].arg[1]
           v == call[Operator].arg[2]
<1>1. PICK outcome \in Outcomes, effect \in BOOLEAN :
        /\ outcome = "ok" => effect
        /\ effect => ~(venue.refusesKnownId /\ call[Operator].sent)
        /\ net' = IF effect THEN [net EXCEPT ![s] = @ - v] ELSE net
        /\ doubled' = (doubled \/ (effect /\ Answer(Operator, outcome) # "ok"))
        /\ After(Operator, outcome, effect)
        /\ IF Raises(Operator, outcome)
           THEN FallbackEnds(Answer(Operator, outcome))
           ELSE UNCHANGED <<outer, kill>>
  BY DEF CloseWorks
<1>2. UNCHANGED <<venue, resting, accepted, placed, reported, overlap>>
  BY DEF CloseWorks
<1>3. kill = "flattening" /\ ~venue.closeAll /\ outer.read /\ (call[Operator].sent => doubled)
  BY <1>0 DEF KillInv, StageFits
<1>4. call'[Trader] = call[Trader]
  BY <1>0, <1>1, AfterFacts
<1>5. kill' \in {"flattening", "failed"}
  <2>1. CASE Raises(Operator, outcome)
    BY <1>0, <1>1, <1>3, <2>1, FallbackEndsFits DEF Raises
  <2>2. CASE ~Raises(Operator, outcome)
    BY <1>1, <1>3, <2>2
  <2> QED BY <2>1, <2>2
<1>6. NobodyPlaces' /\ NothingRestsAfterCancel' /\ FlatMeansFlat'
  BY <1>2, <1>3, <1>4, <1>5
     DEF KillInv, NobodyPlaces, NothingRestsAfterCancel, NothingRests, FlatMeansFlat
<1>7. CASE Raises(Operator, outcome)
  <2>1. ~Retries(Operator, outcome) /\ ~outer'.read /\ outer'.todo = {}
    BY <1>0, <1>1, <1>7, FallbackEndsFits DEF Raises
  <2>2. call'[Operator].op = "none"
    BY <1>0, <1>1, <2>1, AfterFacts, CallFacts
  <2>3. StageFits' /\ FallbackFits' /\ TodoRead'
    BY <2>1, <2>2 DEF StageFits, FallbackFits, TodoRead
  <2> QED BY <1>6, <2>3 DEF KillInv
<1>8. CASE Retries(Operator, outcome)
  <2>1. UNCHANGED <<outer, kill>> /\ Answer(Operator, outcome) = "retryable"
    BY <1>1, <1>8 DEF Raises, Retries
  <2>2. /\ call'[Operator].op = "close" /\ call'[Operator].arg = call[Operator].arg
        /\ call'[Operator].sent = (call[Operator].sent \/ effect)
    BY <1>0, <1>1, <1>8, AfterFacts
  <2>3. StageFits' /\ TodoRead'
    BY <1>0, <1>1, <1>2, <1>3, <2>1, <2>2 DEF StageFits, KillInv, TodoRead
  <2>4. FallbackFits'
    <3>1. SUFFICES ASSUME ~overlap, ClosesOnce'
          PROVE  /\ \A p \in outer.todo : p[2] = net'[p[1]] /\ p[1] # s
                 /\ net'[s] = IF call[Operator].sent \/ effect THEN 0 ELSE v
                 /\ \A t \in Symbols : net'[t] # 0 => <<t, net'[t]>> \in outer.todo \/ s = t
      BY <1>2, <2>1, <2>2 DEF FallbackFits
    <3>2. ClosesOnce
      BY <1>0, <1>1, <1>2, <3>1 DEF ClosesOnce
    <3>3. /\ \A p \in outer.todo : p[2] = net[p[1]] /\ p[1] # s
          /\ net[s] = IF call[Operator].sent THEN 0 ELSE v
          /\ \A t \in Symbols : net[t] # 0 => <<t, net[t]>> \in outer.todo \/ s = t
      BY <1>0, <1>3, <3>1, <3>2 DEF KillInv, FallbackFits
    <3>4. CASE ~effect
      BY <1>0, <1>1, <3>3, <3>4
    <3>5. CASE effect
      <4>1. ~call[Operator].sent
        BY <1>1, <1>2, <1>3, <2>1, <3>1, <3>5 DEF ClosesOnce
      <4>2. s \in Symbols /\ v \in Int /\ net[s] = v
        BY <1>0, <3>3, <4>1
      <4>3. net'[s] = 0 /\ \A t \in Symbols : t # s => net'[t] = net[t]
        BY <1>0, <1>1, <3>5, <4>2
      <4>4. \A p \in outer.todo : p[1] \in Symbols
        BY <1>0
      <4> QED BY <3>3, <3>5, <4>3, <4>4
    <3> QED BY <3>4, <3>5
  <2> QED BY <1>6, <2>3, <2>4 DEF KillInv
<1>9. CASE ~Raises(Operator, outcome) /\ ~Retries(Operator, outcome)
  <2>1. UNCHANGED <<outer, kill>> /\ Answer(Operator, outcome) = "ok" /\ effect
    BY <1>1, <1>9 DEF Raises, Answer
  <2>2. call'[Operator].op = "none"
    BY <1>0, <1>1, <1>9, AfterFacts, CallFacts
  <2>3. StageFits' /\ TodoRead'
    BY <2>1, <2>2 DEF StageFits, KillInv, TodoRead
  <2>4. FallbackFits'
    <3>1. SUFFICES ASSUME ~overlap, ClosesOnce'
          PROVE  /\ \A p \in outer.todo : p[2] = net'[p[1]]
                 /\ \A t \in Symbols : net'[t] # 0 => <<t, net'[t]>> \in outer.todo
      BY <1>2, <2>1, <2>2 DEF FallbackFits
    <3>2. ClosesOnce
      BY <1>0, <1>1, <1>2, <3>1 DEF ClosesOnce
    <3>3. /\ \A p \in outer.todo : p[2] = net[p[1]] /\ p[1] # s
          /\ net[s] = IF call[Operator].sent THEN 0 ELSE v
          /\ \A t \in Symbols : net[t] # 0 => <<t, net[t]>> \in outer.todo \/ s = t
      BY <1>0, <1>3, <3>1, <3>2 DEF KillInv, FallbackFits
    <3>4. ~call[Operator].sent
      BY <1>1, <1>3, <2>1, <3>2 DEF ClosesOnce
    <3>5. s \in Symbols /\ v \in Int /\ net[s] = v
      BY <1>0, <3>3, <3>4
    <3>6. net'[s] = 0 /\ \A t \in Symbols : t # s => net'[t] = net[t]
      BY <1>0, <1>1, <2>1, <3>5
    <3>7. \A p \in outer.todo : p[1] \in Symbols
      BY <1>0
    <3> QED BY <3>3, <3>6, <3>7
  <2> QED BY <1>6, <2>3, <2>4 DEF KillInv
<1> QED BY <1>7, <1>8, <1>9

LEMMA KillNext ==
    ASSUME KillInv, [AlpacaNext]_alpacaVars
    PROVE  KillInv'
<1>1. AlpacaTypes /\ AlpacaTypes'
  BY TypesNext DEF KillInv
<1>2. CASE EngageKillSwitch
  <2>1. Starting("cancel_all", <<>>) \in OperatorCalls /\ ~Starting("cancel_all", <<>>).paused
        /\ Starting("cancel_all", <<>>).op = "cancel_all"
    BY <1>1, StartingFits DEF OperatorCalls
  <2>2. call'[Operator].op = "cancel_all" /\ call'[Trader] = call[Trader]
    <3>1. Trader \in Callers /\ Operator \in Callers /\ Trader # Operator
      BY <1>1, CallFacts
    <3> QED BY <1>1, <1>2, <2>1, <3>1, NewCall DEF EngageKillSwitch
  <2>3. kill' = "cancelling" /\ overlap' = (call[Trader].op = "submit") /\ outer' = outer
    BY <1>2 DEF EngageKillSwitch
  <2>4. StageFits' /\ NobodyPlaces' /\ NothingRestsAfterCancel' /\ TodoRead' /\ FallbackFits' /\ FlatMeansFlat'
    BY <2>2, <2>3 DEF KillInv, StageFits, NobodyPlaces, NothingRestsAfterCancel, TodoRead, FallbackFits, FlatMeansFlat
  <2> QED BY <1>1, <2>4 DEF KillInv
<1>3. CASE LatchBreaker
  BY <1>1, <1>3 DEF LatchBreaker, KillInv, StageFits, NobodyPlaces, NothingRestsAfterCancel, NothingRests,
                    TodoRead, FallbackFits, FlatMeansFlat, ClosesOnce, NoPosition
<1>4. CASE UNCHANGED alpacaVars
  BY <1>1, <1>4 DEF alpacaVars, KillInv, StageFits, NobodyPlaces, NothingRestsAfterCancel, NothingRests,
                    TodoRead, FallbackFits, FlatMeansFlat, ClosesOnce, NoPosition
<1> QED BY <1>1, <1>2, <1>3, <1>4, TraderKeeps, CancelAllKeeps, FlattenKeeps, FallbackStepKeeps,
           FallbackOverKeeps, CloseKeeps DEF AlpacaNext, OperatorWorks

LEMMA KillInit == AlpacaInit => KillInv
<1> SUFFICES ASSUME AlpacaInit PROVE KillInv
  OBVIOUS
<1>1. call = [c \in Callers |-> NoCall] /\ kill = "ready" /\ outer = NoOuter
  BY DEF AlpacaInit
<1>2. Trader \in Callers /\ Operator \in Callers /\ NoCall.op = "none"
  BY TraderAssumption DEF NoCall
<1>3. CallsFit
  BY <1>1, <1>2 DEF CallsFit
<1>4. outer \in Outers /\ outer.todo = {}
  BY <1>1, AttemptsAssumption DEF NoOuter, Outers
<1>5. AlpacaTypes
  <2>1. venue \in [closeAll : BOOLEAN, refusesKnownId : BOOLEAN]
    BY TraderAssumption DEF AlpacaInit
  <2>2. /\ resting \in [Requests -> Nat] /\ accepted \in [Requests -> Nat]
        /\ placed \in [Requests -> Nat] /\ reported \in [Requests -> Nat]
        /\ net \in [Symbols -> Int]
    BY DEF AlpacaInit
  <2>3. kill \in KillStages /\ overlap \in BOOLEAN /\ doubled \in BOOLEAN
    BY DEF AlpacaInit, KillStages
  <2> QED BY <1>3, <1>4, <2>1, <2>2, <2>3 DEF AlpacaTypes
<1>6. call[Operator].op = "none"
  BY <1>1, <1>2
<1> QED BY <1>1, <1>4, <1>5, <1>6
        DEF KillInv, StageFits, NobodyPlaces, NothingRestsAfterCancel, TodoRead, FallbackFits, FlatMeansFlat

\* When the kill switch of the adapter has come back and no placement ran beside it, no
\* order rests and no position is open, however often its calls and its fallback were
\* repeated, were late or lost their answers.
THEOREM KillSwitchLeavesNothing == AlpacaSpec => []KillLeavesNothing
<1>1. KillInv => KillLeavesNothing
  BY DEF KillInv, NothingRestsAfterCancel, FlatMeansFlat, ClosesOnce, KillLeavesNothing
<1> QED BY <1>1, KillInit, KillNext, PTL DEF AlpacaSpec

\* A call never has more attempts than it was given, and nothing rests, is counted or is
\* open in other than whole numbers.
THEOREM AlpacaTypeCorrect == AlpacaSpec => []AlpacaTypeOK
<1>1. KillInv => AlpacaTypeOK
  <2> SUFFICES ASSUME KillInv PROVE AlpacaTypeOK
    OBVIOUS
  <2>1. AlpacaTypes
    BY DEF KillInv
  <2> DEFINE args == Requests \cup {<<>>} \cup (Symbols \X Int)
  <2>2. TraderCalls \cup OperatorCalls \cup {NoCall} \subseteq Calls(args) \cup {NoCall}
    <3>1. TraderCalls \subseteq Calls(args)
      BY DEF TraderCalls, Calls, Ops
    <3>2. SweepCalls \subseteq Calls(args)
      BY DEF SweepCalls, Calls, Ops
    <3>3. CloseCalls \subseteq Calls(args)
      BY DEF CloseCalls, Calls, Ops
    <3> QED BY <3>1, <3>2, <3>3 DEF OperatorCalls
  <2>3. call \in [Callers -> Calls(args) \cup {NoCall}]
    BY <2>1, <2>2 DEF AlpacaTypes, CallsFit
  <2>4. outer.attempt \in 0..Attempts
    BY <2>1 DEF AlpacaTypes, Outers
  <2> QED BY <2>1, <2>3, <2>4 DEF AlpacaTypes, AlpacaTypeOK
<1> QED BY <1>1, KillInit, KillNext, PTL DEF AlpacaSpec

-----------------------------------------------------------------------------
(* What a placement may leave at the exchange.                             *)

\* The attempts a placement of r still has.
Unspent(r) ==
    IF call[Trader].op = "submit" /\ call[Trader].arg = r
    THEN Attempts - call[Trader].attempt + (IF call[Trader].paused THEN 0 ELSE 1)
    ELSE 0

RepeatsFit(r) ==
    /\ accepted[r] + Unspent(r) <= Attempts * placed[r]
    /\ Request[r].clientId => resting[r] <= 1
    /\ venue.refusesKnownId /\ Request[r].clientId => accepted[r] <= 1

RepeatsInv == AlpacaTypes /\ \A r \in Requests : RepeatsFit(r)

LEMMA UnspentFits ==
    ASSUME AlpacaTypes, NEW r \in Requests
    PROVE  Unspent(r) \in Nat
<1>1. Trader \in Callers /\ Attempts \in Nat
  BY CallFacts
<1>2. CASE call[Trader].op = "submit"
  <2>1. call[Trader].attempt \in 1..Attempts /\ call[Trader].paused \in BOOLEAN
    BY <1>1, <1>2, Kinds
  <2> QED BY <1>1, <2>1 DEF Unspent
<1>3. CASE call[Trader].op # "submit"
  BY <1>3 DEF Unspent
<1> QED BY <1>2, <1>3

\* Steps that spend no attempt.
LEMMA RepeatsStay ==
    ASSUME RepeatsInv, AlpacaTypes', NEW r \in Requests, UNCHANGED <<venue, accepted, placed>>,
           resting'[r] <= resting[r] \/ resting'[r] = 0, Unspent(r)' = Unspent(r) \/ Unspent(r)' = 0
    PROVE  RepeatsFit(r)'
<1>1. RepeatsFit(r) /\ accepted[r] \in Nat /\ resting[r] \in Nat /\ resting'[r] \in Nat /\ placed[r] \in Nat
      /\ Attempts \in Nat
  BY AttemptsAssumption DEF RepeatsInv, AlpacaTypes
<1>2. Unspent(r) \in Nat
  BY UnspentFits DEF RepeatsInv
<1> DEFINE u == Unspent(r)
           v == Unspent(r)'
           top == Attempts * placed[r]
<1>3. top \in Int /\ accepted[r] + u <= top /\ (v = u \/ v = 0) /\ u \in Nat
  BY <1>1, <1>2 DEF RepeatsFit
<1> HIDE DEF u, v, top
<1>4. accepted[r] + v <= top
  BY <1>1, <1>3
<1>5. Request[r].clientId => resting'[r] <= 1
  BY <1>1 DEF RepeatsFit
<1>6. accepted' = accepted /\ placed' = placed /\ venue' = venue
  OBVIOUS
<1> QED BY <1>1, <1>4, <1>5, <1>6 DEF RepeatsFit, v, top

LEMMA RepeatsNext ==
    ASSUME RepeatsInv, [AlpacaNext]_alpacaVars
    PROVE  RepeatsInv'
<1>1. AlpacaTypes /\ AlpacaTypes'
  BY TypesNext DEF RepeatsInv
<1>2. Trader \in Callers /\ Operator \in Callers /\ Trader # Operator /\ Attempts \in Nat \ {0}
      /\ resting \in [Requests -> Nat] /\ resting' \in [Requests -> Nat] /\ accepted \in [Requests -> Nat]
      /\ placed \in [Requests -> Nat]
  BY <1>1, CallFacts DEF AlpacaTypes
<1>3. SUFFICES ASSUME NEW r \in Requests PROVE RepeatsFit(r)'
  BY <1>1 DEF RepeatsInv
<1>4. RepeatsFit(r) /\ Unspent(r) \in Nat /\ accepted[r] \in Nat /\ resting[r] \in Nat /\ placed[r] \in Nat
  BY <1>1, <1>2, UnspentFits DEF RepeatsInv
<1>5. ASSUME UNCHANGED <<venue, accepted, placed>>, call'[Trader] = call[Trader],
             resting'[r] <= resting[r] \/ resting'[r] = 0
      PROVE  RepeatsFit(r)'
  <2>1. Unspent(r)' = Unspent(r)
    BY <1>5 DEF Unspent
  <2> QED BY <1>1, <1>5, <2>1, RepeatsStay
<1>6. ASSUME NEW q \in Requests, PlaceOrder(q) PROVE RepeatsFit(r)'
  <2>1. /\ call' = [call EXCEPT ![Trader] = Starting("submit", q)] /\ call[Trader] = NoCall
        /\ placed' = [placed EXCEPT ![q] = @ + 1] /\ UNCHANGED <<venue, resting, accepted>>
    BY <1>6 DEF PlaceOrder
  <2>2. Starting("submit", q) \in TraderCalls /\ ~Starting("submit", q).paused
        /\ Starting("submit", q).op = "submit" /\ Starting("submit", q).arg = q
    BY <1>1, StartingFits
  <2>3. call'[Trader] = Starting("submit", q)
    BY <1>1, <1>2, <2>1, <2>2, NewCall
  <2>4. Unspent(r) = 0
    BY <1>1, <2>1, CallFacts DEF Unspent
  <2>5. CASE q = r
    <3>1. Unspent(r)' = Attempts
      BY <1>2, <2>2, <2>3, <2>5 DEF Unspent, Starting
    <3>2. placed'[r] = placed[r] + 1 /\ Attempts * (placed[r] + 1) = Attempts * placed[r] + Attempts
      BY <1>2, <2>1, <2>5
    <3>3. accepted[r] <= Attempts * placed[r] /\ Attempts * placed[r] \in Int
      BY <1>2, <1>4, <2>4 DEF RepeatsFit
    <3>4. accepted[r] + Attempts <= Attempts * placed'[r]
      BY <1>2, <1>4, <3>2, <3>3
    <3>5. accepted'[r] + Unspent(r)' <= Attempts * placed'[r]
      BY <2>1, <3>1, <3>4
    <3> QED BY <1>4, <2>1, <3>5 DEF RepeatsFit
  <2>6. CASE q # r
    <3>1. Unspent(r)' = 0 /\ placed'[r] = placed[r]
      BY <1>2, <2>1, <2>2, <2>3, <2>6 DEF Unspent
    <3>2. accepted'[r] + Unspent(r)' <= Attempts * placed'[r]
      BY <1>4, <2>1, <2>4, <3>1 DEF RepeatsFit
    <3> QED BY <1>4, <2>1, <3>2 DEF RepeatsFit
  <2> QED BY <2>5, <2>6
<1>7. ASSUME NEW q \in Requests, Cancel(q) PROVE RepeatsFit(r)'
  <2>1. Starting("cancel", q) \in TraderCalls /\ ~Starting("cancel", q).paused /\ Starting("cancel", q).op = "cancel"
    BY <1>1, StartingFits
  <2>2. call'[Trader].op = "cancel"
    BY <1>1, <1>2, <1>7, <2>1, NewCall DEF Cancel
  <2>3. Unspent(r)' = 0
    BY <2>2 DEF Unspent
  <2> QED BY <1>1, <1>2, <1>7, <2>3, RepeatsStay DEF Cancel
<1>8. ASSUME NEW q \in Requests, ExchangeFills(q) PROVE RepeatsFit(r)'
  BY <1>2, <1>5, <1>8 DEF ExchangeFills
<1>9. CASE SubmitWorks
  <2> DEFINE q == call[Trader].arg
  <2>1. q \in Requests /\ Working(Trader) /\ call[Trader].op = "submit" /\ ~call[Trader].paused
        /\ call[Trader].attempt \in 1..Attempts
    BY <1>1, <1>2, <1>9, Kinds, CallFacts DEF SubmitWorks, Working
  <2>2. PICK outcome \in Outcomes, effect \in BOOLEAN :
           /\ After(Trader, outcome, effect)
           /\ (~Refused(q) /\ Accept(q)) \/ UNCHANGED <<resting, accepted>>
    BY <1>9 DEF SubmitWorks, Outcomes
  <2>3. UNCHANGED <<venue, placed>>
    BY <1>9 DEF SubmitWorks
  <2>4. q = r => Unspent(r)' <= Unspent(r) - 1 /\ Unspent(r)' \in Nat
    <3>1. SUFFICES ASSUME q = r PROVE Unspent(r)' <= Unspent(r) - 1 /\ Unspent(r)' \in Nat
      OBVIOUS
    <3>2. Unspent(r) = Attempts - call[Trader].attempt + 1
      BY <2>1, <3>1 DEF Unspent
    <3>3. CASE Retries(Trader, outcome)
      <4>1. Unspent(r)' = Attempts - call[Trader].attempt
        BY <1>1, <1>2, <2>1, <2>2, <3>1, <3>3, AfterFacts DEF Unspent
      <4> QED BY <1>2, <2>1, <3>2, <4>1
    <3>4. CASE ~Retries(Trader, outcome)
      <4>1. call'[Trader].op = "none"
        BY <1>1, <1>2, <2>1, <2>2, <3>4, AfterFacts, CallFacts
      <4>2. Unspent(r)' = 0
        BY <4>1 DEF Unspent
      <4> QED BY <1>2, <2>1, <3>2, <4>2
    <3> QED BY <3>3, <3>4
  <2>5. q # r => Unspent(r)' = 0
    <3>1. call'[Trader].op = "none" \/ call'[Trader].arg = q
      BY <1>1, <1>2, <2>1, <2>2, AfterFacts, CallFacts
    <3> QED BY <3>1 DEF Unspent
  <2>6. CASE q # r \/ UNCHANGED <<resting, accepted>>
    <3>1. resting'[r] = resting[r] /\ accepted'[r] = accepted[r]
      BY <1>2, <2>1, <2>2, <2>6 DEF Accept
    <3> DEFINE u == Unspent(r)
               v == Unspent(r)'
               top == Attempts * placed[r]
    <3>2. v \in Nat /\ (v <= u - 1 \/ v = 0) /\ u \in Nat /\ top \in Int /\ accepted[r] + u <= top
      BY <1>2, <1>4, <2>4, <2>5 DEF RepeatsFit
    <3> HIDE DEF u, v, top
    <3>3. accepted'[r] + v <= top
      BY <1>4, <3>1, <3>2
    <3> QED BY <1>4, <2>3, <3>1, <3>3 DEF RepeatsFit, v, top
  <2>7. CASE q = r /\ ~Refused(r) /\ Accept(r)
    <3>1. accepted'[r] = accepted[r] + 1 /\ (resting'[r] = resting[r] \/ ~Request[r].clientId \/ resting'[r] = 1)
      BY <1>2, <2>7 DEF Accept
    <3>2. venue.refusesKnownId /\ Request[r].clientId => accepted[r] = 0
      BY <1>4, <2>7 DEF Refused
    <3> DEFINE u == Unspent(r)
               v == Unspent(r)'
               top == Attempts * placed[r]
    <3>3. v \in Nat /\ v <= u - 1 /\ u \in Nat /\ top \in Int /\ accepted[r] + u <= top
      BY <1>2, <1>4, <2>4, <2>7 DEF RepeatsFit
    <3> HIDE DEF u, v, top
    <3>4. accepted'[r] + v <= top
      BY <1>4, <3>1, <3>3
    <3>5. Request[r].clientId => resting'[r] <= 1
      BY <1>4, <3>1 DEF RepeatsFit
    <3> QED BY <2>3, <3>1, <3>2, <3>4, <3>5 DEF RepeatsFit, v, top
  <2> QED BY <2>2, <2>6, <2>7
<1>10. CASE CancelWorks
  <2>1. call[Trader].op = "cancel" /\ Working(Trader) /\ call[Trader].arg \in Requests
    BY <1>1, <1>2, <1>10, Kinds, CallFacts DEF CancelWorks
  <2>2. PICK outcome \in Outcomes, effect \in BOOLEAN :
          /\ resting' = IF effect THEN [resting EXCEPT ![call[Trader].arg] = @ - 1] ELSE resting
          /\ After(Trader, outcome, effect)
    BY <1>10 DEF CancelWorks
  <2>3. call'[Trader].op # "submit"
    BY <1>1, <1>2, <2>1, <2>2, AfterFacts, CallFacts
  <2>4. Unspent(r)' = 0
    BY <2>3 DEF Unspent
  <2>5. resting'[r] <= resting[r]
    BY <1>2, <2>1, <2>2
  <2> QED BY <1>1, <1>10, <2>4, <2>5, RepeatsStay DEF CancelWorks
<1>11. CASE EngageKillSwitch
  <2>1. Starting("cancel_all", <<>>) \in OperatorCalls /\ ~Starting("cancel_all", <<>>).paused
    BY <1>1, StartingFits DEF OperatorCalls
  <2> QED BY <1>1, <1>2, <1>4, <1>5, <1>11, <2>1, NewCall DEF EngageKillSwitch
<1>12. CASE CancelAllWorks
  <2>1. /\ UNCHANGED <<venue, accepted, placed>> /\ (\E cancelled : resting' = Without(cancelled))
        /\ \E x : call' = [call EXCEPT ![Operator] = x]
    BY <1>12 DEF CancelAllWorks
  <2>2. call'[Trader] = call[Trader]
    BY <1>1, <1>2, <2>1 DEF AlpacaTypes, CallsFit
  <2>3. resting'[r] = 0 \/ resting'[r] = resting[r]
    BY <1>2, <2>1 DEF Without
  <2> QED BY <1>2, <1>4, <1>5, <2>1, <2>2, <2>3
<1>13. CASE FlattenWorks
  <2>1. /\ UNCHANGED <<venue, accepted, placed>> /\ (resting' = resting \/ resting' = NothingRests)
        /\ \E x : call' = [call EXCEPT ![Operator] = x]
    BY <1>13 DEF FlattenWorks, After
  <2>2. call'[Trader] = call[Trader]
    BY <1>1, <1>2, <2>1 DEF AlpacaTypes, CallsFit
  <2> QED BY <1>2, <1>4, <1>5, <2>1, <2>2 DEF NothingRests
<1>14. CASE CloseWorks \/ FallbackCloses
  <2>1. /\ UNCHANGED <<venue, accepted, placed, resting>>
        /\ \E x : call' = [call EXCEPT ![Operator] = x]
    BY <1>14 DEF CloseWorks, FallbackCloses, After
  <2>2. call'[Trader] = call[Trader]
    BY <1>1, <1>2, <2>1 DEF AlpacaTypes, CallsFit
  <2> QED BY <1>2, <1>4, <1>5, <2>1, <2>2
<1>15. CASE FallbackReads \/ FallbackTimesOut \/ FallbackReadFails \/ FallbackDone \/ LatchBreaker \/ UNCHANGED alpacaVars
  BY <1>4, <1>5, <1>15
     DEF FallbackReads, FallbackTimesOut, FallbackReadFails, FallbackDone, LatchBreaker, alpacaVars
<1>16. ASSUME NEW c \in Callers, CallTimesOut(c) \/ CallWakes(c) PROVE RepeatsFit(r)'
  <2>1. UNCHANGED <<venue, resting, accepted, placed>> /\ (TimesOut(c) \/ Wakes(c))
    BY <1>16 DEF CallTimesOut, CallWakes, Rest
  <2>2. CASE c = Trader
    <3>1. Unspent(r)' = Unspent(r)
      <4>1. CASE call[Trader].op = "submit"
        <5>1. call[Trader].attempt \in 1..Attempts /\ call[Trader].paused \in BOOLEAN
          BY <1>1, <1>2, <4>1, Kinds, CallFacts
        <5>2. /\ call'[Trader].op = "submit" /\ call'[Trader].arg = call[Trader].arg /\ ~call'[Trader].paused
              /\ call'[Trader].attempt = IF call[Trader].paused THEN call[Trader].attempt + 1 ELSE call[Trader].attempt
          BY <1>1, <2>1, <2>2, <4>1, SameCall
        <5> QED BY <1>2, <5>1, <5>2, <4>1 DEF Unspent
      <4>2. CASE call[Trader].op # "submit"
        BY <1>1, <2>1, <2>2, <4>2, SameCall DEF Unspent
      <4> QED BY <4>1, <4>2
    <3> QED BY <1>1, <1>4, <2>1, <3>1, RepeatsStay
  <2>3. CASE c # Trader
    BY <1>1, <1>2, <1>4, <1>5, <2>1, <2>3, SameCall
  <2> QED BY <2>2, <2>3
<1> QED BY <1>6, <1>7, <1>8, <1>9, <1>10, <1>11, <1>12, <1>13, <1>14, <1>15, <1>16 DEF AlpacaNext, OperatorWorks

\* One placement makes at most one order per attempt; with a client id at most one of them
\* rests, and an exchange that refuses a known id takes one in all.
THEOREM RepeatsAlwaysBounded == AlpacaSpec => []RepeatsAreBounded
<1>1. AlpacaInit => RepeatsInv
  <2> SUFFICES ASSUME AlpacaInit PROVE RepeatsInv
    OBVIOUS
  <2>1. AlpacaTypes
    BY KillInit DEF KillInv
  <2>2. call[Trader].op = "none"
    BY <2>1, CallFacts DEF AlpacaInit
  <2>3. ASSUME NEW r \in Requests PROVE RepeatsFit(r)
    <3>1. Unspent(r) = 0 /\ accepted[r] = 0 /\ placed[r] = 0 /\ resting[r] = 0 /\ Attempts \in Nat
      BY <2>2, AttemptsAssumption DEF AlpacaInit, Unspent
    <3> QED BY <3>1 DEF RepeatsFit
  <2> QED BY <2>1, <2>3 DEF RepeatsInv
<1>2. RepeatsInv => RepeatsAreBounded
  <2> SUFFICES ASSUME RepeatsInv, NEW r \in Requests
               PROVE  /\ accepted[r] <= Attempts * placed[r]
                      /\ Request[r].clientId => resting[r] <= 1
                      /\ venue.refusesKnownId /\ Request[r].clientId => accepted[r] <= 1
    BY DEF RepeatsAreBounded
  <2>1. RepeatsFit(r) /\ Unspent(r) \in Nat /\ accepted[r] \in Nat /\ placed[r] \in Nat /\ Attempts \in Nat
    BY UnspentFits, AttemptsAssumption DEF RepeatsInv, AlpacaTypes
  <2>2. Attempts * placed[r] \in Int
    BY <2>1
  <2>3. accepted[r] <= Attempts * placed[r]
    <3> DEFINE top == Attempts * placed[r]
    <3>1. accepted[r] + Unspent(r) <= top /\ top \in Int
      BY <2>1, <2>2 DEF RepeatsFit
    <3> HIDE DEF top
    <3>2. accepted[r] <= top
      BY <2>1, <3>1
    <3> QED BY <3>2 DEF top
  <2> QED BY <2>1, <2>3 DEF RepeatsFit
<1> QED BY <1>1, <1>2, RepeatsNext, PTL DEF AlpacaSpec
=============================================================================
