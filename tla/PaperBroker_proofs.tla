------------------------- MODULE PaperBroker_proofs -------------------------
(***************************************************************************)
(* Proofs about the paper broker under its adapter (AdapterSpec), for any  *)
(* prices, templates, windows and bounds.                                  *)
(***************************************************************************)
EXTENDS PaperAdapter, Lemmas, SequenceTheorems

Sides == {"buy", "sell"}

Order == [type : OrderKinds, side : Sides, qty : Nat \ {0}, limit : Nat, stop : Nat,
          trail : Nat, anchor : Nat, id : Nat, parent : Nat, group : Nat,
          state : OrderStates, filled : Nat, at : Int, beside : Nat]

Req == [type : OrderKinds, side : Sides, qty : Nat \ {0}, limit : Nat, stop : Nat,
        trail : Nat, id : Nat, parent : Nat, group : Nat, price : Prices]

Bar == [high : Prices, low : Prices, close : Prices]

SendTask == [task : {"send", "protect"}, req : Req]
LookTask == [task : {"look"}, order : Nat, bar : Bar]
FollowTask == [task : {"follow"}, entry : Nat, bracket : BracketTemplates]
Task == SendTask \union LookTask \union FollowTask

Resting == {"SUBMITTED", "TRIGGERED", "WORKING"}

-----------------------------------------------------------------------------
(* The evaluator and the group rules on a ledger.                          *)

\* What evaluate_trigger decides for an order: it fills at some price, or it
\* leaves the order in a resting state.
LEMMA TriggerFacts ==
    ASSUME NEW order \in Order, NEW bar \in Bar
    PROVE  /\ RatchetTrailing(order, bar) \in Nat
           /\ \/ EvaluateTrigger(order, bar).fill = TRUE /\ EvaluateTrigger(order, bar).price \in Int
              \/ EvaluateTrigger(order, bar).fill = FALSE /\ EvaluateTrigger(order, bar).state \in Resting
<1> DEFINE level == IF order.type = "trailing_stop"
                    THEN TrailingLevel(order, RatchetTrailing(order, bar)) ELSE order.stop
<1>1. bar.high \in Nat /\ bar.low \in Nat /\ bar.close \in Nat
  BY PaperBrokerConstants DEF Bar
<1>2. /\ order.type \in OrderKinds /\ order.anchor \in Nat /\ order.stop \in Nat
      /\ order.trail \in Nat /\ order.limit \in Nat
  BY DEF Order
<1>3. RatchetTrailing(order, bar) \in Nat
  BY <1>1, <1>2 DEF RatchetTrailing
<1>4. level \in Int
  BY <1>2, <1>3 DEF TrailingLevel
<1> HIDE DEF level
<1>5. StopPrice(order, level, bar) \in Int
  BY <1>1, <1>4 DEF StopPrice
<1> DEFINE Good(d) == (d.fill = TRUE /\ d.price \in Int) \/ (d.fill = FALSE /\ d.state \in Resting)
<1>6. /\ \A p \in Int : Good(Elect(p))
      /\ \A s \in Resting : Good(Rest(s))
  BY DEF Elect, Rest
<1>7. Good(EvaluateTrigger(order, bar))
  <2> HIDE DEF Good
  <2> USE <1>1, <1>2, <1>6 DEF Resting
  <2>1. CASE order.type = "market"
    BY <2>1 DEF EvaluateTrigger
  <2>2. CASE order.type = "limit"
    BY <2>2 DEF EvaluateTrigger
  <2>3. CASE order.type \in {"stop", "trailing_stop"}
    BY <1>5, <2>3 DEF EvaluateTrigger, level
  <2>4. CASE order.type = "stop_limit"
    BY <2>4 DEF EvaluateTrigger
  <2> QED BY <2>1, <2>2, <2>3, <2>4 DEF OrderKinds
<1> QED BY <1>3, <1>7

\* An order that keeps who it is: only its state, fill and anchor may differ.
SameOrder(old, new) ==
    /\ new \in Order
    /\ new.id = old.id /\ new.parent = old.parent /\ new.group = old.group /\ new.at = old.at

\* The other orders of a ledger when order i fills: they stay as they are or are
\* cancelled, and the live siblings of i in its group or under its parent are.
OthersSettle(ledger, new, i) ==
    /\ new \in Seq(Order) /\ DOMAIN new = DOMAIN ledger
    /\ \A j \in DOMAIN ledger :
        /\ SameOrder(ledger[j], new[j])
        /\ j # i => \/ new[j] = ledger[j]
                    \/ ~IsTerminal(ledger[j]) /\ new[j].state = "CANCELLED"
        /\ j # i /\ ledger[j].group = ledger[i].group /\ ledger[i].group # 0
              => IsTerminal(new[j])
        /\ j # i /\ ledger[j].parent = ledger[i].parent /\ ledger[i].parent # 0
              => IsTerminal(new[j])
    /\ new[i].state = "FILLED" /\ new[i].beside = Len(ledger)

LEMMA CancelFacts ==
    ASSUME NEW ledger \in Seq(Order), NEW i \in DOMAIN ledger, NEW leg \in Order,
           SameOrder(ledger[i], leg),
           NEW qty \in Nat
    PROVE  LET filled == [ledger EXCEPT ![i].state = "FILLED", ![i].filled = qty,
                                            ![i].beside = Len(ledger)]
           IN  OthersSettle(ledger, CancelBracketTwin(CancelOcoSiblings(filled, leg), leg), i)
<1> DEFINE filled == [ledger EXCEPT ![i].state = "FILLED", ![i].filled = qty,
                                        ![i].beside = Len(ledger)]
           once == CancelOcoSiblings(filled, leg)
           new == CancelBracketTwin(once, leg)
<1>1. /\ DOMAIN ledger = 1..Len(ledger) /\ Len(ledger) \in Nat
      /\ \A j \in DOMAIN ledger : ledger[j] \in Order
  OBVIOUS
<1>2. /\ DOMAIN filled = DOMAIN ledger
      /\ \A j \in DOMAIN ledger : j # i => filled[j] = ledger[j]
      /\ filled[i] = [ledger[i] EXCEPT !.state = "FILLED", !.filled = qty,
                                        !.beside = Len(ledger)]
  OBVIOUS
<1> HIDE DEF filled
<1>3. /\ filled[i] \in Order /\ filled[i].state = "FILLED" /\ filled[i].beside = Len(ledger)
      /\ SameOrder(ledger[i], filled[i])
  BY <1>1, <1>2 DEF Order, OrderStates, SameOrder
<1>4. \A j \in DOMAIN ledger : filled[j] \in Order
  BY <1>1, <1>2, <1>3
<1>5. /\ DOMAIN once = DOMAIN ledger
      /\ \A j \in DOMAIN ledger :
            once[j] = IF leg.group # 0 /\ filled[j].group = leg.group /\ ~IsTerminal(filled[j])
                      THEN [filled[j] EXCEPT !.state = "CANCELLED"] ELSE filled[j]
  BY <1>2 DEF CancelOcoSiblings, Cancel
<1>6. /\ DOMAIN new = DOMAIN ledger
      /\ \A j \in DOMAIN ledger :
            new[j] = IF leg.parent # 0 /\ once[j].parent = leg.parent /\ ~IsTerminal(once[j])
                     THEN [once[j] EXCEPT !.state = "CANCELLED"] ELSE once[j]
  <2> HIDE DEF once
  <2> QED BY <1>5 DEF CancelBracketTwin, Cancel
<1> HIDE DEF once, new
<1>7. ASSUME NEW j \in DOMAIN ledger
      PROVE  /\ new[j] \in Order
             /\ new[j].id = filled[j].id /\ new[j].parent = filled[j].parent
             /\ new[j].group = filled[j].group /\ new[j].at = filled[j].at
             /\ IsTerminal(filled[j]) => new[j] = filled[j]
             /\ new[j] = filled[j] \/ new[j].state = "CANCELLED"
             /\ filled[j].group = leg.group /\ leg.group # 0 => IsTerminal(new[j])
             /\ filled[j].parent = leg.parent /\ leg.parent # 0 => IsTerminal(new[j])
  <2>1. /\ [filled[j] EXCEPT !.state = "CANCELLED"] \in Order
        /\ [filled[j] EXCEPT !.state = "CANCELLED"].state = "CANCELLED"
        /\ [filled[j] EXCEPT !.state = "CANCELLED"].id = filled[j].id
        /\ [filled[j] EXCEPT !.state = "CANCELLED"].parent = filled[j].parent
        /\ [filled[j] EXCEPT !.state = "CANCELLED"].group = filled[j].group
        /\ [filled[j] EXCEPT !.state = "CANCELLED"].at = filled[j].at
    BY <1>4 DEF Order, OrderStates
  <2>2. \/ once[j] = filled[j] /\ ~(leg.group # 0 /\ filled[j].group = leg.group /\ ~IsTerminal(filled[j]))
        \/ once[j] = [filled[j] EXCEPT !.state = "CANCELLED"] /\ ~IsTerminal(filled[j])
    BY <1>5
  <2>3. \/ new[j] = once[j] /\ ~(leg.parent # 0 /\ once[j].parent = leg.parent /\ ~IsTerminal(once[j]))
        \/ new[j] = [filled[j] EXCEPT !.state = "CANCELLED"] /\ ~IsTerminal(filled[j])
    BY <1>6, <2>1, <2>2 DEF IsTerminal, TerminalStates
  <2> QED BY <1>4, <2>1, <2>2, <2>3 DEF IsTerminal, TerminalStates
<1>8. new[i].state = "FILLED" /\ new[i].beside = Len(ledger)
  BY <1>3, <1>7 DEF IsTerminal, TerminalStates
<1>9. new \in Seq(Order)
  <2>1. new = [j \in 1..Len(ledger) |-> new[j]]
    BY <1>1, <1>6 DEF new, CancelBracketTwin, Cancel
  <2> QED BY <1>1, <1>7, <2>1
<1>10. ASSUME NEW j \in DOMAIN ledger
       PROVE  /\ SameOrder(ledger[j], new[j])
              /\ j # i => \/ new[j] = ledger[j]
                          \/ ~IsTerminal(ledger[j]) /\ new[j].state = "CANCELLED"
              /\ j # i /\ ledger[j].group = ledger[i].group /\ ledger[i].group # 0
                    => IsTerminal(new[j])
              /\ j # i /\ ledger[j].parent = ledger[i].parent /\ ledger[i].parent # 0
                    => IsTerminal(new[j])
  BY <1>2, <1>3, <1>7 DEF SameOrder
<1> QED BY <1>6, <1>8, <1>9, <1>10 DEF OthersSettle, new, once, filled

-----------------------------------------------------------------------------
(* What a step leaves behind.                                              *)

\* Every variable the proofs speak of holds values of its shape.
Types ==
    /\ orders \in Seq(Order)
    /\ call \in Seq(Task)
    /\ DOMAIN pending \subseteq KnownIds
    /\ \A id \in DOMAIN pending : pending[id] \in Seq(Req)
    /\ mark \in Prices
    /\ now \in Nat

\* An id from uuid4() is carried by no order and by no waiting child.
LEMMA FreshFacts ==
    ASSUME Types
    PROVE  /\ FreshId \in Nat /\ FreshId > Callers
           /\ \A i \in DOMAIN orders : orders[i].id < FreshId
           /\ \A id \in DOMAIN pending : \A n \in DOMAIN pending[id] : pending[id][n].id < FreshId
           /\ FreshGroup \in Nat \ {0}
           /\ \A i \in DOMAIN orders : orders[i].group < FreshGroup
<1> DEFINE Ids == {orders[i].id : i \in DOMAIN orders}
           Groups == {orders[i].group : i \in DOMAIN orders}
           Children(id) == {pending[id][n].id : n \in DOMAIN pending[id]}
           Families == {Children(id) : id \in DOMAIN pending}
<1>1. /\ DOMAIN orders = 1..Len(orders) /\ Len(orders) \in Nat
      /\ \A i \in DOMAIN orders : orders[i] \in Order
  BY DEF Types
<1>2. IsFiniteSet(DOMAIN orders)
  BY <1>1, FS_Interval
<1>3. IsFiniteSet(Ids) /\ IsFiniteSet(Groups)
  <2> DEFINE id == [i \in DOMAIN orders |-> orders[i].id]
             group == [i \in DOMAIN orders |-> orders[i].group]
  <2>1. /\ Ids = {id[i] : i \in DOMAIN orders} /\ DOMAIN id = DOMAIN orders
        /\ Groups = {group[i] : i \in DOMAIN orders} /\ DOMAIN group = DOMAIN orders
    OBVIOUS
  <2> HIDE DEF id, group, Ids, Groups
  <2> QED BY <1>2, <2>1, FiniteRange
<1>4. Ids \in SUBSET Nat /\ Groups \in SUBSET Nat
  BY <1>1 DEF Order
<1>5. IsFiniteSet(DOMAIN pending)
  BY <1>3, FS_Subset DEF Types, KnownIds
<1>6. ASSUME NEW id \in DOMAIN pending
      PROVE  Children(id) \in SUBSET Nat /\ IsFiniteSet(Children(id))
  <2>1. pending[id] \in Seq(Req)
    BY DEF Types
  <2>2. /\ DOMAIN pending[id] = 1..Len(pending[id]) /\ Len(pending[id]) \in Nat
        /\ \A n \in DOMAIN pending[id] : pending[id][n] \in Req
    BY <2>1
  <2>3. IsFiniteSet(DOMAIN pending[id])
    BY <2>2, FS_Interval
  <2> DEFINE id2 == [n \in DOMAIN pending[id] |-> pending[id][n].id]
  <2>4. Children(id) = {id2[n] : n \in DOMAIN pending[id]} /\ DOMAIN id2 = DOMAIN pending[id]
    OBVIOUS
  <2>5. Children(id) \in SUBSET Nat
    BY <2>2 DEF Req
  <2> HIDE DEF id2, Children
  <2> QED BY <2>3, <2>4, <2>5, FiniteRange
<1>7. IsFiniteSet(Families)
  <2> DEFINE family == [id \in DOMAIN pending |-> Children(id)]
  <2>1. Families = {family[id] : id \in DOMAIN pending} /\ DOMAIN family = DOMAIN pending
    OBVIOUS
  <2> HIDE DEF family, Families
  <2> QED BY <1>5, <2>1, FiniteRange
<1>8. IsFiniteSet(UNION Families) /\ UNION Families \in SUBSET Nat
  BY <1>6, <1>7, FS_UNION
<1> DEFINE Used == {Callers} \union Ids \union UNION Families
<1>9. IsFiniteSet(Used) /\ Used \in SUBSET Nat /\ Used # {}
  <2> HIDE DEF Ids, Families
  <2>1. IsFiniteSet({Callers}) /\ Callers \in Nat
    BY FS_Singleton, PaperBrokerConstants
  <2> QED BY <1>3, <1>4, <1>8, <2>1, FS_Union
<1>10. Max(Used) \in Nat /\ \A x \in Used : x <= Max(Used)
  <2> HIDE DEF Used
  <2> QED BY <1>9, MaxOfFinite
<1>11. FreshId = Max(Used) + 1
  BY DEF FreshId
<1>12. \A x \in Used : x < FreshId /\ x \in Nat
  <2> HIDE DEF Used
  <2> QED BY <1>9, <1>10, <1>11
<1>13. FreshId \in Nat
  <2> HIDE DEF Used
  <2> QED BY <1>10, <1>11
<1> DEFINE Known == {0} \union Groups
<1>14. IsFiniteSet(Known) /\ Known \in SUBSET Nat /\ Known # {}
  <2> HIDE DEF Groups
  <2>1. IsFiniteSet({0}) /\ {0} \in SUBSET Nat
    BY FS_Singleton
  <2> QED BY <1>3, <1>4, <2>1, FS_Union
<1>15. Max(Known) \in Nat /\ \A x \in Known : x <= Max(Known)
  <2> HIDE DEF Known
  <2> QED BY <1>14, MaxOfFinite
<1>16. FreshGroup = Max(Known) + 1
  BY DEF FreshGroup
<1>17. FreshGroup \in Nat \ {0} /\ \A x \in Known : x < FreshGroup
  <2> HIDE DEF Known
  <2> QED BY <1>14, <1>15, <1>16
<1>18. \A id \in DOMAIN pending : \A n \in DOMAIN pending[id] : pending[id][n].id \in Used
  OBVIOUS
<1> HIDE DEF Used, Known
<1>19. Callers \in Used /\ (\A i \in DOMAIN orders : orders[i].id \in Used)
       /\ \A i \in DOMAIN orders : orders[i].group \in Known
  BY DEF Used, Known
<1> QED BY <1>12, <1>13, <1>17, <1>18, <1>19

\* Order i of a ledger has been evaluated and stays live.
Rests(ledger, i, rest) ==
    /\ orders' \in Seq(Order) /\ DOMAIN orders' = DOMAIN ledger
    /\ \A j \in DOMAIN ledger :
        SameOrder(ledger[j], orders'[j]) /\ (j # i => orders'[j] = ledger[j])
    /\ orders'[i].state \in Resting
    /\ call' = rest
    /\ UNCHANGED <<books, pending>>

Waiting(id) == IF id \in DOMAIN pending THEN pending[id] ELSE <<>>

\* Order i of a ledger has been evaluated and has filled.
Fills(ledger, i, rest) ==
    /\ OthersSettle(ledger, orders', i)
    /\ call' = [k \in DOMAIN Waiting(ledger[i].id) |-> Send(Waiting(ledger[i].id)[k])] \o rest
    /\ pending' = [id \in DOMAIN pending \ {ledger[i].id} |-> pending[id]]
    /\ \E qty \in Nat \ {0}, ref \in Int :
        /\ cash' = cash - Direction(ledger[i].side) * ref * qty - UnitCost * qty
        /\ ApplyPosition(ledger[i].side, qty, ref)

LEMMA EvaluateFacts ==
    ASSUME NEW ledger \in Seq(Order), NEW i \in DOMAIN ledger, NEW bar \in Bar, NEW rest,
           EvaluateOrderFill(ledger, i, bar, rest)
    PROVE  Rests(ledger, i, rest) \/ Fills(ledger, i, rest)
<1> DEFINE order == ledger[i]
           decision == EvaluateTrigger(order, bar)
           anchor == IF order.type = "trailing_stop" THEN RatchetTrailing(order, bar) ELSE order.anchor
           ratcheted == [ledger EXCEPT ![i].anchor = anchor]
<1>1. order \in Order /\ DOMAIN ledger = 1..Len(ledger) /\ \A j \in DOMAIN ledger : ledger[j] \in Order
  OBVIOUS
<1>2. anchor \in Nat
  BY <1>1, TriggerFacts DEF Order
<1> HIDE DEF anchor
<1>3. /\ DOMAIN ratcheted = DOMAIN ledger
      /\ \A j \in DOMAIN ledger : j # i => ratcheted[j] = ledger[j]
      /\ ratcheted[i] = [order EXCEPT !.anchor = anchor]
  OBVIOUS
<1>4. /\ ratcheted[i] \in Order /\ SameOrder(order, ratcheted[i])
      /\ ratcheted[i].side = order.side /\ ratcheted[i].qty = order.qty
  BY <1>1, <1>2, <1>3 DEF Order, SameOrder
<1>5. ratcheted \in Seq(Order) /\ Len(ratcheted) = Len(ledger)
  BY <1>1, <1>3, <1>4
<1> HIDE DEF ratcheted
<1>6. CASE decision.fill = TRUE /\ decision.price \in Int
  <2>1. FillOrder(ratcheted, i, decision.price, rest)
    BY <1>6 DEF EvaluateOrderFill, ratcheted, anchor
  <2>2. PICK qty \in FillQuantities(ratcheted[i]) :
           LET leg == ratcheted[i]
               filled == [ratcheted EXCEPT ![i].state = "FILLED", ![i].filled = qty,
                                           ![i].beside = Len(ratcheted)]
               waiting == IF leg.id \in DOMAIN pending THEN pending[leg.id] ELSE <<>>
           IN  /\ orders' = CancelBracketTwin(CancelOcoSiblings(filled, leg), leg)
               /\ cash' = cash - Direction(leg.side) * decision.price * qty - UnitCost * qty
               /\ ApplyPosition(leg.side, qty, decision.price)
               /\ pending' = [id \in DOMAIN pending \ {leg.id} |-> pending[id]]
               /\ call' = [k \in DOMAIN waiting |-> Send(waiting[k])] \o rest
    BY <2>1 DEF FillOrder
  <2>3. qty \in Nat \ {0}
    <3>1. ratcheted[i].qty \in Nat \ {0}
      BY <1>4 DEF Order
    <3>2. qty \in 1..ratcheted[i].qty \/ qty = ratcheted[i].qty
      BY PaperBrokerConstants DEF FillQuantities
    <3> QED BY <3>1, <3>2
  <2>4. SameOrder(ratcheted[i], ratcheted[i])
    BY <1>4 DEF SameOrder
  <2>5. OthersSettle(ratcheted, orders', i)
    BY <1>3, <1>4, <1>5, <2>2, <2>3, <2>4, CancelFacts
  <2>6. OthersSettle(ledger, orders', i)
    <3>1. ASSUME NEW j \in DOMAIN ledger, j # i
          PROVE  /\ SameOrder(ledger[j], orders'[j])
                 /\ \/ orders'[j] = ledger[j]
                    \/ ~IsTerminal(ledger[j]) /\ orders'[j].state = "CANCELLED"
                 /\ ledger[j].group = ledger[i].group /\ ledger[i].group # 0 => IsTerminal(orders'[j])
                 /\ ledger[j].parent = ledger[i].parent /\ ledger[i].parent # 0 => IsTerminal(orders'[j])
      BY <1>3, <1>4, <2>5, <3>1 DEF OthersSettle, SameOrder
    <3>2. SameOrder(ledger[i], orders'[i])
      BY <1>3, <1>4, <2>5 DEF OthersSettle, SameOrder
    <3> QED BY <1>3, <1>5, <2>5, <3>1, <3>2 DEF OthersSettle
  <2>7. ratcheted[i].id = order.id
    BY <1>4 DEF SameOrder
  <2>8. \E q \in Nat \ {0}, ref \in Int :
            /\ cash' = cash - Direction(ledger[i].side) * ref * q - UnitCost * q
            /\ ApplyPosition(ledger[i].side, q, ref)
    BY <1>4, <1>6, <2>2, <2>3
  <2> QED BY <2>2, <2>6, <2>7, <2>8 DEF Fills, Waiting
<1>7. CASE decision.fill = FALSE /\ decision.state \in Resting
  <2>1. /\ orders' = [ratcheted EXCEPT ![i].state = decision.state]
        /\ call' = rest
        /\ UNCHANGED <<books, pending>>
    BY <1>7 DEF EvaluateOrderFill, ratcheted, anchor
  <2>2. orders' \in Seq(Order) /\ DOMAIN orders' = DOMAIN ledger
        /\ (\A j \in DOMAIN ledger : j # i => orders'[j] = ledger[j])
        /\ orders'[i] = [ratcheted[i] EXCEPT !.state = decision.state]
        /\ orders'[i] \in Order
    <3>1. [ratcheted[i] EXCEPT !.state = decision.state] \in Order
      BY <1>4, <1>7 DEF Order, OrderStates, Resting
    <3> QED BY <1>1, <1>3, <1>5, <2>1, <3>1
  <2>3. SameOrder(ledger[i], orders'[i]) /\ orders'[i].state = decision.state
    BY <1>4, <2>2 DEF SameOrder, Order
  <2>4. \A j \in DOMAIN ledger : SameOrder(ledger[j], orders'[j])
    BY <1>1, <2>2, <2>3 DEF SameOrder
  <2> QED BY <1>7, <2>1, <2>2, <2>3, <2>4 DEF Rests
<1> QED BY <1>1, <1>6, <1>7, TriggerFacts

\* The order a request becomes in the ledger.
Becomes(new, req, parent, group, state, at) ==
    /\ new \in Order
    /\ new.id = IdOf(req.id) /\ new.parent = parent /\ new.group = group
    /\ new.state = state /\ new.at = at

\* A submission is refused, with the order in the ledger as rejected.
Refused(req, rest) ==
    /\ \E new \in Order : Becomes(new, req, 0, 0, "REJECTED", -1) /\ orders' = Append(orders, new)
    /\ call' = rest
    /\ UNCHANGED <<books, pending, seenIds>>

\* A submission is accepted, and the order is evaluated at once.
AcceptedAs(req, new, rest) ==
    /\ Becomes(new, req, req.parent, req.group, "SUBMITTED", now)
    /\ req.id # 0 => ~Within(seenIds, req.id)
    /\ seenIds' = IF req.id = 0 THEN seenIds ELSE Put(seenIds, req.id, now)
    /\ \/ Rests(Append(orders, new), Len(orders) + 1, rest)
       \/ Fills(Append(orders, new), Len(orders) + 1, rest)

LEMMA NewOrderFacts ==
    ASSUME Types, NEW req \in Req, NEW parent \in Nat, NEW group \in Nat,
           NEW state \in OrderStates, NEW at \in Int
    PROVE  Becomes(NewOrder(req, parent, group, state, at), req, parent, group, state, at)
<1>1. IdOf(req.id) \in Nat
  BY FreshFacts DEF IdOf, Req
<1>2. NewOrder(req, parent, group, state, at) \in Order
  <2>1. /\ req.type \in OrderKinds /\ req.side \in Sides /\ req.qty \in Nat \ {0} /\ req.limit \in Nat
        /\ req.stop \in Nat /\ req.trail \in Nat
    BY DEF Req
  <2> QED BY <1>1, <2>1 DEF NewOrder, Order
<1> QED BY <1>2 DEF NewOrder, Becomes

LEMMA AppendFacts ==
    ASSUME Types, NEW new \in Order
    PROVE  /\ Append(orders, new) \in Seq(Order)
           /\ Len(orders) \in Nat /\ DOMAIN orders = 1..Len(orders)
           /\ DOMAIN Append(orders, new) = 1..(Len(orders) + 1)
           /\ \A i \in DOMAIN orders : Append(orders, new)[i] = orders[i] /\ orders[i] \in Order
           /\ Append(orders, new)[Len(orders) + 1] = new
BY DEF Types

LEMMA SubmitFacts ==
    ASSUME Types, NEW req \in Req, NEW rest, Submit(req, rest)
    PROVE  Refused(req, rest) \/ \E new \in Order : AcceptedAs(req, new, rest)
<1> DEFINE rejected == NewOrder(req, 0, 0, "REJECTED", -1)
           new == NewOrder(req, req.parent, req.group, "SUBMITTED", now)
<1>1. Becomes(rejected, req, 0, 0, "REJECTED", -1)
  BY NewOrderFacts DEF OrderStates
<1>2. Becomes(new, req, req.parent, req.group, "SUBMITTED", now)
  <2>1. req.parent \in Nat /\ req.group \in Nat /\ "SUBMITTED" \in OrderStates /\ now \in Int
    BY DEF OrderStates, Req, Types
  <2> QED BY <2>1, NewOrderFacts
<1>3. CASE IdempotencyRefuses(req)
  <2>1. /\ orders' = Append(orders, rejected)
        /\ call' = rest
        /\ UNCHANGED <<books, pending, seenIds>>
    BY <1>3 DEF Submit, Reject
  <2>2. \E o \in Order : Becomes(o, req, 0, 0, "REJECTED", -1) /\ orders' = Append(orders, o)
    <3> HIDE DEF rejected
    <3>1. rejected \in Order
      BY <1>1 DEF Becomes
    <3> QED BY <1>1, <2>1, <3>1
  <2> QED BY <2>1, <2>2 DEF Refused
<1>4. CASE ~IdempotencyRefuses(req)
  <2>1. /\ seenIds' = IF req.id = 0 THEN seenIds ELSE Put(seenIds, req.id, now)
        /\ EvaluateOrderFill(Append(orders, new), Len(Append(orders, new)), FlatBar(req.price), rest)
    BY <1>4 DEF Submit
  <2>2. req.id # 0 => ~Within(seenIds, req.id)
    BY <1>4 DEF IdempotencyRefuses
  <2>3. FlatBar(req.price) \in Bar
    BY DEF FlatBar, Bar, Req
  <2>4. new \in Order
    BY <1>2 DEF Becomes
  <2> HIDE DEF new
  <2>5. /\ Append(orders, new) \in Seq(Order) /\ Len(Append(orders, new)) = Len(orders) + 1
        /\ Len(orders) + 1 \in DOMAIN Append(orders, new)
    BY <2>4 DEF Types
  <2>6. \/ Rests(Append(orders, new), Len(orders) + 1, rest)
        \/ Fills(Append(orders, new), Len(orders) + 1, rest)
    BY <2>1, <2>3, <2>5, EvaluateFacts
  <2>7. AcceptedAs(req, new, rest)
    BY <1>2, <2>1, <2>2, <2>6 DEF AcceptedAs
  <2> QED BY <2>4, <2>7
<1> QED BY <1>3, <1>4

\* The head of the call and what is left of it.
LEMMA HeadFacts ==
    ASSUME Types, call # <<>>
    PROVE  /\ Len(call) \in Nat \ {0} /\ DOMAIN call = 1..Len(call)
           /\ Head(call) = call[1] /\ Head(call) \in Task
           /\ Tail(call) \in Seq(Task) /\ Len(Tail(call)) = Len(call) - 1
           /\ \A k \in 1..Len(Tail(call)) : Tail(call)[k] = call[k + 1] /\ k + 1 \in DOMAIN call
           /\ Head(call).task \in {"send", "protect"} => Head(call).req \in Req
           /\ Head(call).task = "look" => Head(call).bar \in Bar
           /\ Head(call).task = "follow" => Head(call).bracket \in BracketTemplates
<1>1. call \in Seq(Task)
  BY DEF Types
<1>2. Head(call) \in Task /\ Tail(call) \in Seq(Task) /\ Head(call) = call[1]
  BY <1>1, HeadTailProperties
<1>3. /\ Len(call) \in Nat \ {0} /\ DOMAIN call = 1..Len(call) /\ Len(Tail(call)) = Len(call) - 1
      /\ \A k \in 1..Len(Tail(call)) : Tail(call)[k] = call[k + 1] /\ k + 1 \in DOMAIN call
  BY <1>1, HeadTailProperties
<1> QED BY <1>2, <1>3 DEF Task, SendTask, LookTask, FollowTask

\* Children in front of the rest of a call.
LEMMA PushFacts ==
    ASSUME NEW w \in Seq(Req), NEW rest \in Seq(Task)
    PROVE  LET c == [k \in DOMAIN w |-> Send(w[k])] \o rest
           IN  /\ c \in Seq(Task) /\ DOMAIN c = 1..(Len(w) + Len(rest))
               /\ Len(w) \in Nat /\ Len(rest) \in Nat /\ DOMAIN w = 1..Len(w)
               /\ \A k \in 1..Len(w) : c[k] = Send(w[k]) /\ w[k] \in Req
               /\ \A k \in (Len(w) + 1)..(Len(w) + Len(rest)) :
                     c[k] = rest[k - Len(w)] /\ k - Len(w) \in 1..Len(rest)
<1> DEFINE front == [k \in DOMAIN w |-> Send(w[k])]
<1>1. DOMAIN w = 1..Len(w) /\ Len(w) \in Nat /\ \A k \in DOMAIN w : w[k] \in Req
  OBVIOUS
<1>2. \A req \in Req : Send(req) \in Task
  BY DEF Send, Task, SendTask
<1>3. front \in Seq(Task) /\ Len(front) = Len(w) /\ \A k \in 1..Len(w) : front[k] = Send(w[k])
  BY <1>1, <1>2
<1> HIDE DEF front
<1>4. (front \o rest) \in Seq(Task) /\ Len(front \o rest) = Len(w) + Len(rest)
  BY <1>3
<1>5. Len(rest) \in Nat
  OBVIOUS
<1>6. \A k \in 1..Len(w) : (front \o rest)[k] = Send(w[k])
  BY <1>1, <1>3, <1>5
<1>7. \A k \in (Len(w) + 1)..(Len(w) + Len(rest)) :
          (front \o rest)[k] = rest[k - Len(w)] /\ k - Len(w) \in 1..Len(rest)
  BY <1>1, <1>3, <1>5
<1> QED BY <1>1, <1>4, <1>5, <1>6, <1>7 DEF front

-----------------------------------------------------------------------------
(* Settled groups and children that follow their entry.                    *)

\* What is live beside a filled leg of its group or bracket was not in the ledger
\* when that leg filled.
SettledIn(ledger) ==
    /\ \A i \in DOMAIN ledger : ledger[i].state = "FILLED" => ledger[i].beside <= Len(ledger)
    /\ \A i, j \in DOMAIN ledger :
        /\ ledger[i].state = "FILLED" /\ ~IsTerminal(ledger[j])
        /\ \/ ledger[i].group # 0 /\ ledger[j].group = ledger[i].group
           \/ ledger[i].parent # 0 /\ ledger[j].parent = ledger[i].parent
        => j > ledger[i].beside

FilledIn(ledger, id) == \E i \in DOMAIN ledger : ledger[i].id = id /\ ledger[i].state = "FILLED"

ChildrenIn(ledger) ==
    \A j \in DOMAIN ledger : ledger[j].parent # 0 =>
        \E i \in 1..(j - 1) : ledger[i].id = ledger[j].parent /\ ledger[i].state = "FILLED"

\* What the tasks of a call refer to is in the ledger, and a child is in a call only
\* once its entry has filled.
TaskFits(task, ledger) ==
    /\ task.task = "look" => task.order \in DOMAIN ledger
    /\ task.task = "follow" => task.entry \in DOMAIN ledger
    /\ task.task \in {"send", "protect"} /\ task.req.parent # 0 => FilledIn(ledger, task.req.parent)

CallFits ==
    \A k \in DOMAIN call :
        \/ TaskFits(call[k], orders)
        \/ /\ k = 2 /\ call[1].task = "send"
           /\ call[k].task = "follow" /\ call[k].entry = Len(orders) + 1

\* A waiting child waits under the id of its entry.
WaitingUnderEntry ==
    \A id \in DOMAIN pending : \A n \in DOMAIN pending[id] : pending[id][n].parent = id

FamilyInv ==
    /\ Types /\ CallFits /\ WaitingUnderEntry
    /\ SettledIn(orders) /\ ChildrenIn(orders)

\* A ledger that has moved on from an older one.
Grows(old, new) ==
    /\ new \in Seq(Order) /\ DOMAIN old \subseteq DOMAIN new
    /\ \A j \in DOMAIN old : SameOrder(old[j], new[j]) /\ (IsTerminal(old[j]) => new[j] = old[j])

LEMMA GrowsKeeps ==
    ASSUME NEW old, NEW new, Grows(old, new)
    PROVE  /\ \A task : TaskFits(task, old) => TaskFits(task, new)
           /\ {old[i].id : i \in DOMAIN old} \subseteq {new[i].id : i \in DOMAIN new}
<1>1. ASSUME NEW id, FilledIn(old, id) PROVE FilledIn(new, id)
  BY <1>1 DEF FilledIn, Grows, SameOrder, IsTerminal, TerminalStates
<1>2. {old[i].id : i \in DOMAIN old} \subseteq {new[i].id : i \in DOMAIN new}
  BY DEF Grows, SameOrder
<1> QED BY <1>1, <1>2 DEF TaskFits, Grows

LEMMA GrowsTransitive ==
    ASSUME NEW a, NEW b, NEW c, Grows(a, b), Grows(b, c)
    PROVE  Grows(a, c)
BY DEF Grows, SameOrder

\* Evaluating a live order moves the ledger on and keeps it settled.
LEMMA EvaluatedLedger ==
    ASSUME NEW ledger \in Seq(Order), NEW k \in DOMAIN ledger, ~IsTerminal(ledger[k]), NEW rest,
           Rests(ledger, k, rest) \/ Fills(ledger, k, rest)
    PROVE  /\ Grows(ledger, orders') /\ DOMAIN orders' = DOMAIN ledger
           /\ SettledIn(ledger) => SettledIn(orders')
           /\ ChildrenIn(ledger) => ChildrenIn(orders')
<1>1. DOMAIN ledger = 1..Len(ledger) /\ Len(ledger) \in Nat
  OBVIOUS
<1>2. CASE Rests(ledger, k, rest)
  <2>1. Grows(ledger, orders') /\ DOMAIN orders' = DOMAIN ledger
    BY <1>2 DEF Rests, Grows
  <2>2. ASSUME SettledIn(ledger) PROVE SettledIn(orders')
    <3>0. ASSUME NEW i \in DOMAIN ledger, orders'[i].state = "FILLED"
          PROVE  orders'[i].beside <= Len(orders')
      <4>1. orders'[i] = ledger[i]
        BY <1>2, <3>0 DEF Rests, Resting
      <4>2. Len(orders') = Len(ledger)
        BY <1>1, <2>1 DEF Grows
      <4> QED BY <2>2, <3>0, <4>1, <4>2 DEF SettledIn
    <3>1. SUFFICES ASSUME NEW i \in DOMAIN ledger, NEW j \in DOMAIN ledger,
                          orders'[i].state = "FILLED", ~IsTerminal(orders'[j]),
                          \/ orders'[i].group # 0 /\ orders'[j].group = orders'[i].group
                          \/ orders'[i].parent # 0 /\ orders'[j].parent = orders'[i].parent
                   PROVE  j > orders'[i].beside
      BY <2>1, <3>0 DEF SettledIn
    <3>2. i # k /\ ledger[i].state = "FILLED" /\ orders'[i] = ledger[i]
      BY <1>2, <3>1 DEF Rests, Resting
    <3>3. ~IsTerminal(ledger[j])
      BY <1>2, <3>1 DEF Rests
    <3>4. /\ orders'[i].group = ledger[i].group /\ orders'[j].group = ledger[j].group
          /\ orders'[i].parent = ledger[i].parent /\ orders'[j].parent = ledger[j].parent
      BY <1>2 DEF Rests, SameOrder
    <3> QED BY <2>2, <3>1, <3>2, <3>3, <3>4 DEF SettledIn
  <2> QED BY <1>1, <2>1, <2>2 DEF ChildrenIn, Grows, SameOrder, IsTerminal, TerminalStates
<1>3. CASE Fills(ledger, k, rest)
  <2>1. OthersSettle(ledger, orders', k)
    BY <1>3 DEF Fills
  <2>2. Grows(ledger, orders') /\ DOMAIN orders' = DOMAIN ledger
    BY <2>1 DEF OthersSettle, Grows
  <2>3. ASSUME SettledIn(ledger) PROVE SettledIn(orders')
    <3>0. ASSUME NEW i \in DOMAIN ledger, orders'[i].state = "FILLED"
          PROVE  orders'[i].beside <= Len(orders')
      <4>1. Len(orders') = Len(ledger)
        BY <1>1, <2>2 DEF Grows
      <4>2. CASE i = k
        BY <1>1, <2>1, <4>1, <4>2 DEF OthersSettle
      <4>3. CASE i # k
        <5>1. orders'[i] = ledger[i]
          BY <2>1, <3>0, <4>3 DEF OthersSettle
        <5> QED BY <2>3, <3>0, <4>1, <5>1 DEF SettledIn
      <4> QED BY <4>2, <4>3
    <3>1. SUFFICES ASSUME NEW i \in DOMAIN ledger, NEW j \in DOMAIN ledger,
                          orders'[i].state = "FILLED", ~IsTerminal(orders'[j]),
                          \/ orders'[i].group # 0 /\ orders'[j].group = orders'[i].group
                          \/ orders'[i].parent # 0 /\ orders'[j].parent = orders'[i].parent
                   PROVE  j > orders'[i].beside
      BY <2>2, <3>0 DEF SettledIn
    <3>2. j # k /\ orders'[j] = ledger[j]
      BY <2>1, <3>1 DEF OthersSettle, IsTerminal, TerminalStates
    <3>3. /\ orders'[i].group = ledger[i].group /\ orders'[j].group = ledger[j].group
          /\ orders'[i].parent = ledger[i].parent /\ orders'[j].parent = ledger[j].parent
      BY <2>1 DEF OthersSettle, SameOrder
    <3>4. i # k
      BY <2>1, <3>1, <3>2, <3>3 DEF OthersSettle
    <3>5. ledger[i].state = "FILLED" /\ orders'[i] = ledger[i]
      BY <2>1, <3>1, <3>4 DEF OthersSettle
    <3> QED BY <2>3, <3>1, <3>2, <3>3, <3>5 DEF SettledIn
  <2> QED BY <1>1, <2>2, <2>3 DEF ChildrenIn, Grows, SameOrder, IsTerminal, TerminalStates
<1> QED BY <1>2, <1>3

\* A step that evaluates an order of a ledger and goes on with the rest of the call.
LEMMA EvaluateStep ==
    ASSUME FamilyInv, NEW ledger, Grows(orders, ledger), NEW k \in DOMAIN ledger,
           ~IsTerminal(ledger[k]), SettledIn(ledger), ChildrenIn(ledger),
           call # <<>>, \A m \in 1..Len(Tail(call)) : TaskFits(Tail(call)[m], ledger),
           Rests(ledger, k, Tail(call)) \/ Fills(ledger, k, Tail(call)),
           UNCHANGED <<mark, now>>
    PROVE  FamilyInv'
<1>1. ledger \in Seq(Order)
  BY DEF Grows
<1>2. Grows(ledger, orders') /\ SettledIn(orders') /\ ChildrenIn(orders') /\ orders' \in Seq(Order)
  BY <1>1, EvaluatedLedger DEF Grows
<1>3. Grows(orders, orders')
  BY <1>2, GrowsTransitive
<1>4. KnownIds \subseteq KnownIds'
  BY <1>3, GrowsKeeps DEF KnownIds
<1>5. Types
  BY DEF FamilyInv
<1>6. Tail(call) \in Seq(Task) /\ \A m \in 1..Len(Tail(call)) : TaskFits(Tail(call)[m], orders')
  BY <1>2, <1>5, GrowsKeeps, HeadFacts
<1>7. CASE Rests(ledger, k, Tail(call))
  <2>1. call' = Tail(call) /\ pending' = pending
    BY <1>7 DEF Rests
  <2>2. Types'
    BY <1>2, <1>4, <1>5, <1>6, <2>1 DEF Types
  <2>3. CallFits'
    BY <1>6, <2>1 DEF CallFits
  <2>4. WaitingUnderEntry'
    BY <2>1 DEF FamilyInv, WaitingUnderEntry
  <2> QED BY <1>2, <2>2, <2>3, <2>4 DEF FamilyInv
<1>8. CASE Fills(ledger, k, Tail(call))
  <2> DEFINE id == ledger[k].id
             w == Waiting(id)
  <2>1. /\ call' = [m \in DOMAIN w |-> Send(w[m])] \o Tail(call)
        /\ pending' = [e \in DOMAIN pending \ {id} |-> pending[e]]
        /\ orders'[k].state = "FILLED" /\ k \in DOMAIN orders'
    BY <1>8 DEF Fills, OthersSettle
  <2>2. w \in Seq(Req) /\ \A m \in DOMAIN w : w[m].parent = id
    BY <1>5 DEF Waiting, Types, FamilyInv, WaitingUnderEntry
  <2> HIDE DEF w
  <2>3. /\ call' \in Seq(Task) /\ DOMAIN call' = 1..(Len(w) + Len(Tail(call)))
        /\ Len(w) \in Nat /\ Len(Tail(call)) \in Nat /\ DOMAIN w = 1..Len(w)
        /\ \A m \in 1..Len(w) : call'[m] = Send(w[m]) /\ w[m] \in Req
        /\ \A m \in (Len(w) + 1)..(Len(w) + Len(Tail(call))) :
              call'[m] = Tail(call)[m - Len(w)] /\ m - Len(w) \in 1..Len(Tail(call))
    BY <1>6, <2>1, <2>2, PushFacts
  <2>4. FilledIn(orders', id)
    BY <1>2, <2>1 DEF FilledIn, Grows, SameOrder
  <2>5. ASSUME NEW m \in DOMAIN call' PROVE TaskFits(call'[m], orders')
    <3>1. CASE m \in 1..Len(w)
      <4>1. call'[m].task = "send" /\ call'[m].req = w[m]
        <5>1. call'[m] = Send(w[m])
          BY <2>3, <3>1
        <5> QED BY <5>1 DEF Send
      <4>2. w[m].parent = id
        BY <2>2, <2>3, <3>1
      <4> QED BY <2>4, <4>1, <4>2 DEF TaskFits
    <3>2. CASE m \in (Len(w) + 1)..(Len(w) + Len(Tail(call)))
      BY <1>6, <2>3, <3>2
    <3> QED BY <2>3, <3>1, <3>2
  <2>6. CallFits'
    BY <2>5 DEF CallFits
  <2>7. DOMAIN pending' \subseteq DOMAIN pending /\ \A e \in DOMAIN pending' : pending'[e] = pending[e]
    BY <2>1
  <2>8. Types'
    BY <1>2, <1>4, <1>5, <2>3, <2>7 DEF Types
  <2>9. WaitingUnderEntry'
    BY <2>7 DEF FamilyInv, WaitingUnderEntry
  <2> QED BY <1>2, <2>6, <2>8, <2>9 DEF FamilyInv
<1> QED BY <1>7, <1>8

\* A submission at the head of the call.
LEMMA SubmitStep ==
    ASSUME FamilyInv, call # <<>>, Head(call).task \in {"send", "protect"},
           Submit(Head(call).req, Tail(call)), UNCHANGED <<mark, now>>
    PROVE  FamilyInv'
<1> DEFINE req == Head(call).req
<1>1. Types
  BY DEF FamilyInv
<1>2. req \in Req
  BY <1>1, HeadFacts
<1>3. TaskFits(Head(call), orders)
  BY <1>1, HeadFacts DEF FamilyInv, CallFits
<1>4. ASSUME NEW new \in Order
      PROVE  /\ Grows(orders, Append(orders, new))
             /\ \A m \in 1..Len(Tail(call)) : TaskFits(Tail(call)[m], Append(orders, new))
  <2>1. Grows(orders, Append(orders, new))
    BY <1>1, AppendFacts DEF Grows, SameOrder
  <2>2. ASSUME NEW m \in 1..Len(Tail(call)) PROVE TaskFits(Tail(call)[m], Append(orders, new))
    <3>1. Tail(call)[m] = call[m + 1] /\ m + 1 \in DOMAIN call
      BY <1>1, HeadFacts
    <3>2. CASE TaskFits(call[m + 1], orders)
      BY <2>1, <3>1, <3>2, GrowsKeeps
    <3>3. CASE call[m + 1].task = "follow" /\ call[m + 1].entry = Len(orders) + 1
      <4>1. call[m + 1].entry \in DOMAIN Append(orders, new)
        BY <1>1, <3>3, AppendFacts
      <4> QED BY <3>1, <3>3, <4>1 DEF TaskFits
    <3> QED BY <3>1, <3>2, <3>3 DEF FamilyInv, CallFits
  <2> QED BY <2>1, <2>2
<1>5. ASSUME NEW new \in Order, new.state # "FILLED",
             new.parent # 0 => FilledIn(orders, new.parent)
      PROVE  SettledIn(Append(orders, new)) /\ ChildrenIn(Append(orders, new))
  <2> DEFINE ledger == Append(orders, new)
  <2>1. /\ Len(orders) \in Nat /\ DOMAIN orders = 1..Len(orders) /\ DOMAIN ledger = 1..(Len(orders) + 1)
        /\ \A i \in DOMAIN orders : ledger[i] = orders[i]
        /\ ledger[Len(orders) + 1] = new
    BY <1>1, AppendFacts
  <2>2. SettledIn(orders) /\ ChildrenIn(orders)
    BY DEF FamilyInv
  <2> HIDE DEF ledger
  <2>3. SettledIn(ledger)
    <3>0. ASSUME NEW i \in DOMAIN ledger, ledger[i].state = "FILLED"
          PROVE  /\ i \in DOMAIN orders /\ ledger[i] = orders[i] /\ orders[i].beside \in Nat
                 /\ ledger[i].beside <= Len(orders)
      <4>1. i \in DOMAIN orders /\ ledger[i] = orders[i]
        BY <1>5, <2>1, <3>0
      <4>2. orders[i] \in Order
        BY <1>1, <4>1 DEF Types
      <4>3. orders[i].beside \in Nat
        BY <4>2 DEF Order
      <4> QED BY <2>2, <3>0, <4>1, <4>3 DEF SettledIn
    <3>9. Len(ledger) = Len(orders) + 1
      BY <1>1 DEF ledger, Types
    <3>1. SUFFICES ASSUME NEW i \in DOMAIN ledger, NEW j \in DOMAIN ledger,
                          ledger[i].state = "FILLED", ~IsTerminal(ledger[j]),
                          \/ ledger[i].group # 0 /\ ledger[j].group = ledger[i].group
                          \/ ledger[i].parent # 0 /\ ledger[j].parent = ledger[i].parent
                   PROVE  j > ledger[i].beside
      <4>1. \A i \in DOMAIN ledger : ledger[i].state = "FILLED" => ledger[i].beside <= Len(ledger)
        BY <2>1, <3>0, <3>9
      <4> QED BY <4>1 DEF SettledIn
    <3>2. i \in DOMAIN orders
      BY <3>0, <3>1
    <3>3. CASE j = Len(orders) + 1
      BY <2>1, <3>0, <3>1, <3>3
    <3>4. CASE j \in DOMAIN orders
      BY <2>1, <2>2, <3>1, <3>2, <3>4 DEF SettledIn
    <3> QED BY <2>1, <3>3, <3>4
  <2>4. ASSUME NEW j \in DOMAIN ledger, ledger[j].parent # 0
        PROVE  \E i \in 1..(j - 1) : ledger[i].id = ledger[j].parent /\ ledger[i].state = "FILLED"
    <3>1. CASE j = Len(orders) + 1
      <4>1. PICK i \in DOMAIN orders : orders[i].id = new.parent /\ orders[i].state = "FILLED"
        BY <1>5, <2>1, <2>4, <3>1 DEF FilledIn
      <4>2. i \in 1..(j - 1) /\ ledger[i] = orders[i]
        BY <2>1, <3>1
      <4> QED BY <2>1, <3>1, <4>1, <4>2
    <3>2. CASE j \in DOMAIN orders
      <4>1. PICK i \in 1..(j - 1) : orders[i].id = orders[j].parent /\ orders[i].state = "FILLED"
        BY <2>1, <2>2, <2>4, <3>2 DEF ChildrenIn
      <4>2. ledger[i] = orders[i] /\ ledger[j] = orders[j]
        BY <2>1, <3>2
      <4> QED BY <4>1, <4>2
    <3> QED BY <2>1, <3>1, <3>2
  <2> QED BY <2>3, <2>4 DEF ChildrenIn, ledger
<1>6. CASE Refused(req, Tail(call))
  <2>1. PICK new \in Order : Becomes(new, req, 0, 0, "REJECTED", -1) /\ orders' = Append(orders, new)
    BY <1>6 DEF Refused
  <2>2. call' = Tail(call) /\ pending' = pending
    BY <1>6 DEF Refused
  <2>3. SettledIn(orders') /\ ChildrenIn(orders')
    BY <1>5, <2>1 DEF Becomes
  <2>4. Grows(orders, orders') /\ \A m \in 1..Len(Tail(call)) : TaskFits(Tail(call)[m], orders')
    BY <1>4, <2>1
  <2>5. KnownIds \subseteq KnownIds'
    BY <2>4, GrowsKeeps DEF KnownIds
  <2>6. Tail(call) \in Seq(Task)
    BY <1>1, HeadFacts
  <2>7. Types'
    BY <1>1, <2>2, <2>4, <2>5, <2>6 DEF Types, Grows
  <2>8. CallFits'
    BY <2>2, <2>4, <2>6 DEF CallFits
  <2>9. WaitingUnderEntry'
    BY <2>2 DEF FamilyInv, WaitingUnderEntry
  <2> QED BY <2>3, <2>7, <2>8, <2>9 DEF FamilyInv
<1>7. ASSUME NEW new \in Order, AcceptedAs(req, new, Tail(call)) PROVE FamilyInv'
  <2> DEFINE ledger == Append(orders, new)
             k == Len(orders) + 1
  <2>1. new.state = "SUBMITTED" /\ new.parent = req.parent
    BY <1>7 DEF AcceptedAs, Becomes
  <2>2. SettledIn(ledger) /\ ChildrenIn(ledger)
    BY <1>3, <1>5, <2>1 DEF TaskFits
  <2>3. k \in DOMAIN ledger /\ ledger[k] = new
    BY <1>1, AppendFacts
  <2>4. ~IsTerminal(ledger[k])
    BY <2>1, <2>3 DEF IsTerminal, TerminalStates
  <2>5. Rests(ledger, k, Tail(call)) \/ Fills(ledger, k, Tail(call))
    BY <1>7 DEF AcceptedAs
  <2>6. Grows(orders, ledger) /\ \A m \in 1..Len(Tail(call)) : TaskFits(Tail(call)[m], ledger)
    BY <1>4
  <2> HIDE DEF ledger, k
  <2> QED BY <2>2, <2>3, <2>4, <2>5, <2>6, EvaluateStep
<1> QED BY <1>1, <1>2, <1>6, <1>7, SubmitFacts

\* A look at a resting order, or at one that has become terminal.
LEMMA LookStep ==
    ASSUME FamilyInv, LookAt
    PROVE  FamilyInv'
<1> DEFINE i == Head(call).order
<1>1. Types /\ call # <<>> /\ Head(call).task = "look"
  BY DEF FamilyInv, LookAt, Upcoming
<1>2. /\ Head(call).bar \in Bar /\ Head(call) = call[1] /\ 1 \in DOMAIN call
      /\ Tail(call) \in Seq(Task) /\ Len(call) \in Nat \ {0} /\ Len(Tail(call)) = Len(call) - 1
      /\ \A m \in 1..Len(Tail(call)) : Tail(call)[m] = call[m + 1] /\ m + 1 \in DOMAIN call
  BY <1>1, HeadFacts
<1>3. \A m \in DOMAIN call : TaskFits(call[m], orders)
  BY <1>1, <1>2 DEF FamilyInv, CallFits
<1>4. i \in DOMAIN orders
  BY <1>1, <1>2, <1>3 DEF TaskFits
<1>5. \A m \in 1..Len(Tail(call)) : TaskFits(Tail(call)[m], orders)
  BY <1>2, <1>3
<1>6. CASE IsTerminal(orders[i])
  <2>1. call' = Tail(call) /\ UNCHANGED <<orders, pending, mark, now>>
    BY <1>6 DEF LookAt
  <2>2. Types'
    BY <1>1, <1>2, <2>1 DEF Types, KnownIds
  <2>3. CallFits'
    BY <1>2, <1>5, <2>1 DEF CallFits
  <2> QED BY <2>1, <2>2, <2>3 DEF FamilyInv, WaitingUnderEntry
<1>7. CASE ~IsTerminal(orders[i])
  <2>1. EvaluateOrderFill(orders, i, Head(call).bar, Tail(call)) /\ UNCHANGED <<mark, now>>
    BY <1>7 DEF LookAt
  <2>2. Rests(orders, i, Tail(call)) \/ Fills(orders, i, Tail(call))
    BY <1>1, <1>2, <1>4, <2>1, EvaluateFacts DEF Types
  <2>3. Grows(orders, orders) /\ SettledIn(orders) /\ ChildrenIn(orders)
    BY <1>1 DEF Types, Grows, SameOrder, FamilyInv
  <2> QED BY <1>1, <1>4, <1>5, <1>7, <2>1, <2>2, <2>3, EvaluateStep
<1> QED BY <1>6, <1>7

\* The end of a bracket: its children are typed, refer to the entry and carry fresh ids.
LEMMA ChildFacts ==
    ASSUME Types, NEW b \in BracketTemplates, NEW kind \in {"limit", "stop"}, NEW id \in Nat, NEW parent \in Nat
    PROVE  /\ BracketChild(b, kind, id, parent) \in Req
           /\ BracketChild(b, kind, id, parent).parent = parent
           /\ BracketChild(b, kind, id, parent).id = id
<1>1. /\ b.entry.side \in Sides /\ b.entry.qty \in Nat \ {0} /\ b.takeProfit \in Nat /\ b.stopLoss \in Nat
      /\ mark \in Prices
  BY DEF BracketTemplates, Templates, Types, Sides
<1> QED BY <1>1 DEF BracketChild, Req, ExitSide, Sides, OrderKinds

LEMMA FollowFacts ==
    ASSUME Types, CallFits, FollowEntry
    PROVE  \E e \in DOMAIN orders, tp \in Req, sl \in Req :
              /\ Head(call).entry = e
              /\ tp.parent = orders[e].id /\ sl.parent = orders[e].id
              /\ tp.id = FreshId /\ sl.id = FreshId + 1
              /\ \/ /\ orders[e].state = "FILLED"
                    /\ call' = <<Send(tp), Send(sl)>> /\ pending' = pending
                 \/ /\ call' = <<>>
                    /\ pending' = Put(pending, orders[e].id, Waiting(orders[e].id) \o <<tp, sl>>)
              /\ UNCHANGED <<orders, books, guards, mark, now>>
<1> DEFINE e == Head(call).entry
           b == Head(call).bracket
           tp == BracketChild(b, "limit", FreshId, orders[e].id)
           sl == BracketChild(b, "stop", FreshId + 1, orders[e].id)
<1>1. call # <<>> /\ Head(call).task = "follow"
  BY DEF FollowEntry, Upcoming
<1>2. Head(call) = call[1] /\ 1 \in DOMAIN call /\ b \in BracketTemplates
  BY <1>1, HeadFacts
<1>3. e \in DOMAIN orders
  BY <1>1, <1>2 DEF CallFits, TaskFits
<1>4. FreshId \in Nat /\ FreshId + 1 \in Nat /\ orders[e].id \in Nat
  <2>1. orders[e] \in Order
    BY <1>3 DEF Types
  <2> QED BY <2>1, FreshFacts DEF Order
<1>5. /\ tp \in Req /\ tp.parent = orders[e].id /\ tp.id = FreshId
      /\ sl \in Req /\ sl.parent = orders[e].id /\ sl.id = FreshId + 1
  BY <1>2, <1>4, ChildFacts
<1>6. /\ \/ /\ orders[e].state = "FILLED"
            /\ call' = <<Send(tp), Send(sl)>> /\ pending' = pending
         \/ /\ call' = <<>>
            /\ pending' = Put(pending, orders[e].id, Waiting(orders[e].id) \o <<tp, sl>>)
      /\ UNCHANGED <<orders, books, guards, mark, now>>
  BY DEF FollowEntry, ReadyForChildren, Waiting
<1> HIDE DEF tp, sl
<1> QED BY <1>3, <1>5, <1>6

LEMMA FollowStep ==
    ASSUME FamilyInv, FollowEntry
    PROVE  FamilyInv'
<1>1. Types /\ CallFits /\ WaitingUnderEntry
  BY DEF FamilyInv
<1>2. PICK e \in DOMAIN orders, tp \in Req, sl \in Req :
          /\ Head(call).entry = e
          /\ tp.parent = orders[e].id /\ sl.parent = orders[e].id
          /\ tp.id = FreshId /\ sl.id = FreshId + 1
          /\ \/ /\ orders[e].state = "FILLED"
                /\ call' = <<Send(tp), Send(sl)>> /\ pending' = pending
             \/ /\ call' = <<>>
                /\ pending' = Put(pending, orders[e].id, Waiting(orders[e].id) \o <<tp, sl>>)
          /\ UNCHANGED <<orders, books, guards, mark, now>>
  BY <1>1, FollowFacts
<1> DEFINE id == orders[e].id
<1>3. CASE orders[e].state = "FILLED" /\ call' = <<Send(tp), Send(sl)>> /\ pending' = pending
  <2>1. Send(tp) \in Task /\ Send(sl) \in Task
    BY DEF Send, Task, SendTask
  <2>2. FilledIn(orders, id)
    BY <1>3 DEF FilledIn
  <2>3. TaskFits(Send(tp), orders) /\ TaskFits(Send(sl), orders)
    BY <1>2, <2>2 DEF TaskFits, Send
  <2>4. Types'
    BY <1>1, <1>2, <1>3, <2>1 DEF Types, KnownIds
  <2>5. CallFits'
    <3>1. DOMAIN call' = 1..2 /\ call'[1] = Send(tp) /\ call'[2] = Send(sl)
      BY <1>3
    <3>2. \A k \in DOMAIN call' : TaskFits(call'[k], orders')
      BY <1>2, <2>3, <3>1
    <3> QED BY <3>2 DEF CallFits
  <2> QED BY <1>2, <1>3, <2>4, <2>5 DEF FamilyInv, WaitingUnderEntry
<1>4. CASE call' = <<>> /\ pending' = Put(pending, id, Waiting(id) \o <<tp, sl>>)
  <2> DEFINE queue == Waiting(id) \o <<tp, sl>>
  <2>1. Waiting(id) \in Seq(Req) /\ \A n \in DOMAIN Waiting(id) : Waiting(id)[n].parent = id
    BY <1>1 DEF Waiting, Types, WaitingUnderEntry
  <2>2. queue \in Seq(Req)
    BY <2>1
  <2>3. \A n \in DOMAIN queue : queue[n].parent = id
    <3>1. /\ Len(queue) = Len(Waiting(id)) + 2 /\ Len(Waiting(id)) \in Nat
          /\ DOMAIN Waiting(id) = 1..Len(Waiting(id)) /\ DOMAIN queue = 1..Len(queue)
      BY <2>1
    <3>2. SUFFICES ASSUME NEW n \in 1..(Len(Waiting(id)) + 2) PROVE queue[n].parent = id
      BY <3>1
    <3>3. CASE n \in 1..Len(Waiting(id))
      BY <2>1, <3>1, <3>3
    <3>4. CASE n = Len(Waiting(id)) + 1
      <4>1. queue[n] = tp
        BY <2>1, <3>1, <3>4
      <4> QED BY <1>2, <4>1
    <3>5. CASE n = Len(Waiting(id)) + 2
      <4>1. queue[n] = sl
        BY <2>1, <3>1, <3>5
      <4> QED BY <1>2, <4>1
    <3> QED BY <3>1, <3>3, <3>4, <3>5
  <2> HIDE DEF queue
  <2>4. /\ DOMAIN pending' = DOMAIN pending \union {id}
        /\ \A p \in DOMAIN pending' : pending'[p] = IF p = id THEN queue ELSE pending[p]
    BY <1>4 DEF queue, Put
  <2>5. id \in KnownIds
    BY DEF KnownIds
  <2>6. Types'
    <3>1. DOMAIN pending' \subseteq KnownIds'
      BY <1>1, <1>2, <2>4, <2>5 DEF Types, KnownIds
    <3>2. \A p \in DOMAIN pending' : pending'[p] \in Seq(Req)
      BY <1>1, <2>2, <2>4 DEF Types
    <3>3. call' \in Seq(Task)
      BY <1>4
    <3> QED BY <1>1, <1>2, <3>1, <3>2, <3>3 DEF Types
  <2>7. WaitingUnderEntry'
    BY <1>1, <2>3, <2>4 DEF WaitingUnderEntry
  <2>8. CallFits'
    BY <1>4 DEF CallFits
  <2> QED BY <1>2, <2>6, <2>7, <2>8 DEF FamilyInv
<1> QED BY <1>2, <1>3, <1>4

\* A public call begins.
LEMMA RequestFacts ==
    ASSUME Types, NEW template \in Templates, NEW id \in Nat, NEW group \in Nat
    PROVE  /\ Request(template, id, group) \in Req
           /\ Request(template, id, group).parent = 0 /\ Request(template, id, group).id = id
           /\ Send(Request(template, id, group)) \in Task
<1>1. mark \in Prices
  BY DEF Types
<1>2. Request(template, id, group) \in Req
  BY <1>1 DEF Request, Req, Templates, Sides
<1>3. Request(template, id, group).parent = 0 /\ Request(template, id, group).id = id
  BY DEF Request
<1> QED BY <1>2, <1>3 DEF Send, Task, SendTask

LEMMA BeginStep ==
    ASSUME FamilyInv, NEW tasks \in Seq(Task),
           \A k \in DOMAIN tasks :
              \/ TaskFits(tasks[k], orders)
              \/ /\ k = 2 /\ tasks[1].task = "send"
                 /\ tasks[k].task = "follow" /\ tasks[k].entry = Len(orders) + 1,
           call' = tasks, UNCHANGED <<orders, pending, now>>, mark' \in Prices
    PROVE  FamilyInv'
<1>1. Types'
  BY DEF FamilyInv, Types, KnownIds
<1>2. CallFits'
  BY DEF CallFits
<1> QED BY <1>1, <1>2 DEF FamilyInv, WaitingUnderEntry

\* What a call is made of when it begins.
LEMMA BeginFacts ==
    ASSUME Types
    PROVE  /\ PlaceOrder => \E template \in Singles, id \in 0..Callers :
                 Idle /\ call' = <<Send(Request(template, id, 0))>> /\ UNCHANGED mark
           /\ PlaceOco => \E legs \in OcoGroups :
                 Idle /\ call' = [k \in DOMAIN legs |-> Send(Request(legs[k], 0, FreshGroup))] /\ UNCHANGED mark
           /\ PlaceBracket => \E b \in Brackets, id \in 0..Callers :
                 /\ Idle /\ UNCHANGED mark
                 /\ call' = <<Send(Request(b.entry, IdOf(id), 0)),
                              [task |-> "follow", entry |-> Len(orders) + 1, bracket |-> b]>>
           /\ MarkPrice => \E bar \in Bars :
                 Idle /\ call' = [i \in DOMAIN orders |-> Look(i, bar)] /\ mark' = bar.close
           /\ PlaceOrder \/ PlaceOco \/ PlaceBracket \/ MarkPrice =>
                 UNCHANGED <<orders, books, pending, guards, now>>
BY DEF PlaceOrder, PlaceOco, PlaceBracket, MarkPrice, Begin

LEMMA PublicCallStep ==
    ASSUME FamilyInv, PlaceOrder \/ PlaceOco \/ PlaceBracket \/ MarkPrice
    PROVE  FamilyInv'
<1>1. Types /\ mark \in Prices /\ UNCHANGED <<orders, pending, now>>
  BY BeginFacts DEF FamilyInv, Types
<1>2. ASSUME NEW template \in Templates, NEW id \in Nat, NEW group \in Nat
      PROVE  /\ Send(Request(template, id, group)) \in Task
             /\ Send(Request(template, id, group)).task = "send"
             /\ TaskFits(Send(Request(template, id, group)), orders)
  BY <1>1, RequestFacts DEF Send, TaskFits
<1>3. ASSUME PlaceOrder PROVE FamilyInv'
  <2>1. PICK template \in Singles, id \in 0..Callers :
            call' = <<Send(Request(template, id, 0))>> /\ UNCHANGED mark
    BY <1>1, <1>3, BeginFacts
  <2>2. template \in Templates /\ id \in Nat
    BY PaperBrokerConstants
  <2>3. call' \in Seq(Task) /\ \A k \in DOMAIN call' : TaskFits(call'[k], orders)
    BY <1>2, <2>1, <2>2
  <2> QED BY <1>1, <2>1, <2>3, BeginStep
<1>4. ASSUME PlaceOco PROVE FamilyInv'
  <2>1. PICK legs \in OcoGroups :
            call' = [k \in DOMAIN legs |-> Send(Request(legs[k], 0, FreshGroup))] /\ UNCHANGED mark
    BY <1>1, <1>4, BeginFacts
  <2>2. legs \in Seq(Templates) /\ FreshGroup \in Nat
    BY <1>1, FreshFacts, PaperBrokerConstants
  <2>3. DOMAIN legs = 1..Len(legs) /\ Len(legs) \in Nat /\ \A k \in DOMAIN legs : legs[k] \in Templates
    BY <2>2
  <2>4. call' \in Seq(Task) /\ \A k \in DOMAIN call' : TaskFits(call'[k], orders)
    BY <1>2, <2>1, <2>2, <2>3
  <2> QED BY <1>1, <2>1, <2>4, BeginStep
<1>5. ASSUME PlaceBracket PROVE FamilyInv'
  <2>1. PICK b \in Brackets, id \in 0..Callers :
            /\ UNCHANGED mark
            /\ call' = <<Send(Request(b.entry, IdOf(id), 0)),
                         [task |-> "follow", entry |-> Len(orders) + 1, bracket |-> b]>>
    BY <1>1, <1>5, BeginFacts
  <2>2. b \in BracketTemplates /\ b.entry \in Templates /\ id \in Nat
    BY PaperBrokerConstants DEF BracketTemplates
  <2>3. IdOf(id) \in Nat
    BY <1>1, <2>2, FreshFacts DEF IdOf
  <2>4. Len(orders) + 1 \in Nat
    BY <1>1 DEF Types
  <2>5. [task |-> "follow", entry |-> Len(orders) + 1, bracket |-> b] \in Task
    BY <2>2, <2>4 DEF Task, FollowTask
  <2>6. call' \in Seq(Task) /\ DOMAIN call' = 1..2
    BY <1>2, <2>1, <2>2, <2>3, <2>5
  <2>7. \A k \in DOMAIN call' :
            \/ TaskFits(call'[k], orders)
            \/ /\ k = 2 /\ call'[1].task = "send"
               /\ call'[k].task = "follow" /\ call'[k].entry = Len(orders) + 1
    BY <1>2, <2>1, <2>2, <2>3, <2>6
  <2> QED BY <1>1, <2>1, <2>6, <2>7, BeginStep
<1>6. ASSUME MarkPrice PROVE FamilyInv'
  <2>1. PICK bar \in Bars : call' = [i \in DOMAIN orders |-> Look(i, bar)] /\ mark' = bar.close
    BY <1>1, <1>6, BeginFacts
  <2>2. bar \in Bar /\ bar.close \in Prices
    BY PaperBrokerConstants DEF Bar
  <2>3. \A i \in DOMAIN orders : Look(i, bar) \in Task /\ TaskFits(Look(i, bar), orders)
    <3>1. DOMAIN orders \subseteq Nat
      BY <1>1 DEF Types
    <3> QED BY <2>2, <3>1 DEF Look, Task, LookTask, TaskFits
  <2>4. call' \in Seq(Task) /\ \A k \in DOMAIN call' : TaskFits(call'[k], orders)
    <3>1. DOMAIN orders = 1..Len(orders) /\ Len(orders) \in Nat
      BY <1>1 DEF Types
    <3> QED BY <2>1, <2>3, <3>1
  <2> QED BY <1>1, <2>1, <2>2, <2>4, BeginStep
<1> QED BY <1>3, <1>4, <1>5, <1>6

\* Orders are retired or amended; nothing fills.
Retires(old, new) ==
    /\ Grows(old, new) /\ DOMAIN new = DOMAIN old
    /\ \A j \in DOMAIN old : \/ new[j].state = old[j].state
                             \/ ~IsTerminal(old[j]) /\ new[j].state = "CANCELLED"

LEMMA CancelledFacts ==
    ASSUME NEW order \in Order
    PROVE  /\ SameOrder(order, Cancelled(order))
           /\ IsTerminal(order) => Cancelled(order) = order
           /\ \/ Cancelled(order).state = order.state
              \/ ~IsTerminal(order) /\ Cancelled(order).state = "CANCELLED"
<1>1. [order EXCEPT !.state = "CANCELLED"] \in Order
  BY DEF Order, OrderStates
<1>2. CASE IsTerminal(order)
  BY <1>2 DEF Cancelled, SameOrder
<1>3. CASE ~IsTerminal(order)
  <2>1. Cancelled(order) = [order EXCEPT !.state = "CANCELLED"]
    BY <1>3 DEF Cancelled
  <2> QED BY <1>1, <1>3, <2>1 DEF SameOrder, Order
<1> QED BY <1>2, <1>3

LEMMA AmendedFacts ==
    ASSUME NEW order \in Order, NEW a \in Amendments
    PROVE  SameOrder(order, Amended(order, a)) /\ Amended(order, a).state = order.state
<1>1. a.qty \in Nat /\ a.limit \in Nat /\ a.stop \in Nat
  BY AmendmentsAssumption
<1>2. Amended(order, a) \in Order
  BY <1>1 DEF Order, Amended
<1> QED BY <1>2 DEF Amended, SameOrder, Order

\* cancel() and replace() find the order they act on.
LEMMA FirstWithFacts ==
    ASSUME Types, NEW id \in KnownIds
    PROVE  FirstWith(id) \in DOMAIN orders /\ orders[FirstWith(id)].id = id
<1> DEFINE With == {i \in DOMAIN orders : orders[i].id = id}
<1>1. With \in SUBSET Nat /\ With # {} /\ DOMAIN orders = 1..Len(orders) /\ Len(orders) \in Nat
  BY DEF Types, KnownIds
<1>2. PICK i \in With : \A j \in With : i <= j
  <2> HIDE DEF With
  <2> QED BY <1>1, LeastElement
<1>3. i \in DOMAIN orders /\ orders[i].id = id
  OBVIOUS
<1>4. \A j \in 1..(i - 1) : orders[j].id # id
  <2>1. ASSUME NEW j \in 1..(i - 1), orders[j].id = id PROVE FALSE
    <3>1. j \in DOMAIN orders /\ ~(i <= j)
      BY <1>1, <1>3
    <3> QED BY <1>2, <2>1, <3>1
  <2> QED BY <2>1
<1> QED BY <1>3, <1>4 DEF FirstWith

LEMMA AdapterFacts ==
    ASSUME Types
    PROVE  /\ \A id \in KnownIds : CancelOrder(id) =>
                  Retires(orders, orders') /\ UNCHANGED <<books, pending, guards, call, mark, now>>
           /\ \A id \in KnownIds : \A a \in Amendments : ReplaceOrder(id, a) =>
                  Retires(orders, orders') /\ UNCHANGED <<books, pending, guards, call, mark, now>>
           /\ EngageKillSwitch =>
                  /\ Retires(orders, orders') /\ UNCHANGED <<books, pending, guards, mark, now>>
                  /\ call' = <<>> \/ (position # 0 /\ call' = <<[task |-> "protect", req |-> FlattenRequest]>>)
<1>1. /\ orders \in Seq(Order) /\ DOMAIN orders = 1..Len(orders) /\ Len(orders) \in Nat
      /\ \A j \in DOMAIN orders : orders[j] \in Order /\ SameOrder(orders[j], orders[j])
  BY DEF Types, SameOrder
<1>2. ASSUME NEW id \in KnownIds, CancelOrder(id) PROVE Retires(orders, orders')
  <2>1. FirstWith(id) \in DOMAIN orders
    BY FirstWithFacts
  <2>2. orders' = [orders EXCEPT ![FirstWith(id)] = Cancelled(orders[FirstWith(id)])]
    BY <1>2 DEF CancelOrder
  <2>3. /\ DOMAIN orders' = DOMAIN orders
        /\ \A j \in DOMAIN orders : orders'[j] = orders[j] \/ orders'[j] = Cancelled(orders[j])
    BY <2>1, <2>2
  <2>4. \A j \in DOMAIN orders : orders'[j] \in Order
    BY <1>1, <2>3, CancelledFacts DEF SameOrder
  <2>5. orders' \in Seq(Order)
    BY <1>1, <2>1, <2>2, CancelledFacts DEF SameOrder
  <2> QED BY <1>1, <2>3, <2>5, CancelledFacts DEF Retires, Grows
<1>3. ASSUME NEW id \in KnownIds, NEW a \in Amendments, ReplaceOrder(id, a) PROVE Retires(orders, orders')
  <2>1. FirstWith(id) \in DOMAIN orders
    BY FirstWithFacts
  <2>2. /\ orders' = [orders EXCEPT ![FirstWith(id)] = Amended(orders[FirstWith(id)], a)]
        /\ ~IsTerminal(orders[FirstWith(id)])
    BY <1>3 DEF ReplaceOrder
  <2>3. /\ DOMAIN orders' = DOMAIN orders
        /\ \A j \in DOMAIN orders :
              orders'[j] = orders[j] \/ (~IsTerminal(orders[j]) /\ orders'[j] = Amended(orders[j], a))
    <3> DEFINE i == FirstWith(id)
    <3>1. i \in DOMAIN orders /\ orders' = [orders EXCEPT ![i] = Amended(orders[i], a)] /\ ~IsTerminal(orders[i])
      BY <2>1, <2>2
    <3> HIDE DEF i
    <3>2. DOMAIN orders' = DOMAIN orders
      BY <3>1
    <3>3. ASSUME NEW j \in DOMAIN orders
          PROVE  orders'[j] = orders[j] \/ (~IsTerminal(orders[j]) /\ orders'[j] = Amended(orders[j], a))
      <4>1. CASE j = i
        BY <3>1, <4>1
      <4>2. CASE j # i
        BY <3>1, <4>2
      <4> QED BY <4>1, <4>2
    <3> QED BY <3>2, <3>3
  <2>4. orders' \in Seq(Order)
    BY <1>1, <2>1, <2>2, AmendedFacts DEF SameOrder
  <2> QED BY <1>1, <2>3, <2>4, AmendedFacts DEF Retires, Grows
<1>4. ASSUME EngageKillSwitch PROVE Retires(orders, orders')
  <2>1. orders' = [i \in DOMAIN orders |-> Cancelled(orders[i])]
    BY <1>4 DEF EngageKillSwitch
  <2>2. orders' \in Seq(Order)
    BY <1>1, <2>1, CancelledFacts DEF SameOrder
  <2> QED BY <1>1, <2>1, <2>2, CancelledFacts DEF Retires, Grows
<1>5. /\ \A id \in KnownIds : CancelOrder(id) => UNCHANGED <<books, pending, guards, call, mark, now>>
      /\ \A id \in KnownIds : \A a \in Amendments : ReplaceOrder(id, a) =>
            UNCHANGED <<books, pending, guards, call, mark, now>>
  BY DEF CancelOrder, ReplaceOrder
<1>6. ASSUME EngageKillSwitch
      PROVE  /\ UNCHANGED <<books, pending, guards, mark, now>>
             /\ call' = <<>> \/ (position # 0 /\ call' = <<[task |-> "protect", req |-> FlattenRequest]>>)
  BY <1>6 DEF EngageKillSwitch
<1> QED BY <1>2, <1>3, <1>4, <1>5, <1>6

LEMMA RetiredLedger ==
    ASSUME NEW old \in Seq(Order), NEW new, Retires(old, new)
    PROVE  /\ SettledIn(old) => SettledIn(new)
           /\ ChildrenIn(old) => ChildrenIn(new)
<1>1. ASSUME NEW j \in DOMAIN old
      PROVE  /\ new[j].id = old[j].id /\ new[j].parent = old[j].parent /\ new[j].group = old[j].group
             /\ new[j].state = "FILLED" <=> old[j].state = "FILLED"
             /\ new[j].state = "FILLED" => new[j] = old[j]
             /\ ~IsTerminal(new[j]) => ~IsTerminal(old[j])
  BY DEF Retires, Grows, SameOrder, IsTerminal, TerminalStates
<1>2. DOMAIN new = DOMAIN old
  BY DEF Retires
<1>3. ASSUME SettledIn(old) PROVE SettledIn(new)
  <2>0. \A i \in DOMAIN new : new[i].state = "FILLED" => new[i].beside <= Len(new)
    <3>1. Len(new) = Len(old)
      BY <1>2 DEF Retires, Grows
    <3> QED BY <1>1, <1>2, <1>3, <3>1 DEF SettledIn
  <2>1. SUFFICES ASSUME NEW i \in DOMAIN old, NEW j \in DOMAIN old,
                        new[i].state = "FILLED", ~IsTerminal(new[j]),
                        \/ new[i].group # 0 /\ new[j].group = new[i].group
                        \/ new[i].parent # 0 /\ new[j].parent = new[i].parent
                 PROVE  j > new[i].beside
    BY <1>2, <2>0 DEF SettledIn
  <2>2. /\ old[i].state = "FILLED" /\ ~IsTerminal(old[j])
        /\ \/ old[i].group # 0 /\ old[j].group = old[i].group
           \/ old[i].parent # 0 /\ old[j].parent = old[i].parent
    <3>1. new[i].group = old[i].group /\ new[j].group = old[j].group
      BY <1>1
    <3>2. new[i].parent = old[i].parent /\ new[j].parent = old[j].parent
      BY <1>1
    <3>3. old[i].state = "FILLED" /\ ~IsTerminal(old[j])
      BY <1>1, <2>1
    <3> QED BY <2>1, <3>1, <3>2, <3>3
  <2>3. new[i] = old[i]
    BY <1>1, <2>1
  <2> QED BY <1>3, <2>2, <2>3 DEF SettledIn
<1>4. ASSUME ChildrenIn(old) PROVE ChildrenIn(new)
  <2>1. new \in Seq(Order)
    BY DEF Retires, Grows
  <2>2. DOMAIN old = 1..Len(new) /\ Len(new) \in Nat
    BY <1>2, <2>1
  <2>3. ASSUME NEW j \in DOMAIN old, new[j].parent # 0
        PROVE  \E i \in 1..(j - 1) : new[i].id = new[j].parent /\ new[i].state = "FILLED"
    <3>0. old[j].parent = new[j].parent
      BY <1>1
    <3>1. PICK i \in 1..(j - 1) : old[i].id = old[j].parent /\ old[i].state = "FILLED"
      BY <1>4, <2>3, <3>0 DEF ChildrenIn
    <3>2. i \in DOMAIN old
      BY <2>2
    <3>3. new[i].id = old[i].id /\ new[i].state = "FILLED"
      BY <1>1, <3>1, <3>2
    <3> QED BY <3>0, <3>1, <3>3
  <2> QED BY <1>2, <2>3 DEF ChildrenIn
<1> QED BY <1>3, <1>4

LEMMA FlattenFacts ==
    ASSUME Types, position \in Int, position # 0
    PROVE  FlattenRequest \in Req /\ FlattenRequest.parent = 0 /\ FlattenRequest.id = FreshId
<1>1. FreshId \in Nat /\ mark \in Prices
  BY FreshFacts DEF Types
<1> QED BY <1>1 DEF FlattenRequest, Req, OrderKinds, Sides

LEMMA FamilyNext ==
    ASSUME FamilyInv, position \in Int, [AdapterNext]_vars
    PROVE  FamilyInv'
<1>1. Types
  BY DEF FamilyInv
<1>2. ASSUME Retires(orders, orders'), UNCHANGED <<pending, mark, now>>,
             \/ call' = <<>>
             \/ position # 0 /\ call' = <<[task |-> "protect", req |-> FlattenRequest]>>
      PROVE  FamilyInv'
  <2>1. SettledIn(orders') /\ ChildrenIn(orders')
    BY <1>2, RetiredLedger DEF FamilyInv, Types
  <2>2. Grows(orders, orders')
    BY <1>2 DEF Retires
  <2>3. KnownIds \subseteq KnownIds'
    BY <2>2, GrowsKeeps DEF KnownIds
  <2>4. call' \in Seq(Task) /\ \A k \in DOMAIN call' : TaskFits(call'[k], orders')
    <3>1. CASE call' = <<>>
      BY <3>1
    <3>2. CASE call' = <<[task |-> "protect", req |-> FlattenRequest]>> /\ position # 0
      <4> DEFINE task == [task |-> "protect", req |-> FlattenRequest]
      <4>1. task \in Task
        BY <1>1, <3>2, FlattenFacts DEF Task, SendTask
      <4>2. TaskFits(task, orders')
        BY <1>1, <3>2, FlattenFacts DEF TaskFits
      <4> HIDE DEF task
      <4>3. call' = <<task>>
        BY <3>2 DEF task
      <4> QED BY <4>1, <4>2, <4>3
    <3> QED BY <1>2, <3>1, <3>2
  <2>5. Types'
    BY <1>1, <1>2, <2>2, <2>3, <2>4 DEF Types, Grows
  <2>6. CallFits'
    BY <2>4 DEF CallFits
  <2> QED BY <1>2, <2>1, <2>5, <2>6 DEF FamilyInv, WaitingUnderEntry
<1>3. ASSUME PlaceOrder \/ PlaceOco \/ PlaceBracket \/ MarkPrice PROVE FamilyInv'
  BY <1>3, PublicCallStep
<1>4. ASSUME Tick PROVE FamilyInv'
  BY <1>4 DEF Tick, FamilyInv, Types, KnownIds, CallFits, WaitingUnderEntry
<1>5. ASSUME Transmit \/ ProtectiveSubmit PROVE FamilyInv'
  BY <1>5, SubmitStep DEF Transmit, ProtectiveSubmit, Upcoming
<1>6. ASSUME Refuse PROVE FamilyInv'
  BY <1>6 DEF Refuse, FamilyInv, Types, KnownIds, CallFits, WaitingUnderEntry
<1>7. ASSUME LookAt PROVE FamilyInv'
  BY <1>7, LookStep
<1>8. ASSUME FollowEntry PROVE FamilyInv'
  BY <1>8, FollowStep
<1>9. ASSUME NEW id \in KnownIds, NEW a \in Amendments, CancelOrder(id) \/ ReplaceOrder(id, a) PROVE FamilyInv'
  <2>1. call = <<>>
    BY <1>9 DEF CancelOrder, ReplaceOrder, Idle
  <2> QED BY <1>1, <1>2, <1>9, <2>1, AdapterFacts
<1>10. ASSUME NEW id \in KnownIds, CancelOrder(id) PROVE FamilyInv'
  <2>1. call = <<>>
    BY <1>10 DEF CancelOrder, Idle
  <2> QED BY <1>1, <1>2, <1>10, <2>1, AdapterFacts
<1>11. ASSUME EngageKillSwitch PROVE FamilyInv'
  BY <1>1, <1>2, <1>11, AdapterFacts
<1>12. ASSUME UNCHANGED vars PROVE FamilyInv'
  BY <1>12 DEF vars, FamilyInv, Types, KnownIds, CallFits, WaitingUnderEntry
<1> QED BY <1>3, <1>4, <1>5, <1>6, <1>7, <1>8, <1>9, <1>10, <1>11, <1>12 DEF AdapterNext, Next

LEMMA FamilyInit == ASSUME Init PROVE FamilyInv
<1>1. Types
  BY DEF Init, Types
<1>2. DOMAIN orders = {} /\ DOMAIN call = {} /\ DOMAIN pending = {}
  BY DEF Init
<1> QED BY <1>1, <1>2 DEF FamilyInv, CallFits, WaitingUnderEntry, SettledIn, ChildrenIn

\* A fill is booked: cash moves by what it costs, the lots by _apply_position.
Books(side, qty, ref) ==
    /\ cash' = cash - Direction(side) * ref * qty - UnitCost * qty
    /\ ApplyPosition(side, qty, ref)

\* A step leaves the books alone or books one fill.
LEMMA BookStep ==
    ASSUME FamilyInv, [AdapterNext]_vars
    PROVE  UNCHANGED books \/ \E side \in Sides, qty \in Nat \ {0}, ref \in Int : Books(side, qty, ref)
<1>1. Types
  BY DEF FamilyInv
<1>2. ASSUME NEW ledger \in Seq(Order), NEW i \in DOMAIN ledger, NEW rest,
             Rests(ledger, i, rest) \/ Fills(ledger, i, rest)
      PROVE  UNCHANGED books \/ \E side \in Sides, qty \in Nat \ {0}, ref \in Int : Books(side, qty, ref)
  <2>1. ledger[i].side \in Sides
    <3>1. ledger[i] \in Order
      OBVIOUS
    <3> QED BY <3>1 DEF Order
  <2> QED BY <1>2, <2>1 DEF Rests, Fills, Books
<1>3. ASSUME Transmit \/ ProtectiveSubmit
      PROVE  UNCHANGED books \/ \E side \in Sides, qty \in Nat \ {0}, ref \in Int : Books(side, qty, ref)
  <2>1. /\ call # <<>> /\ Head(call).task \in {"send", "protect"}
        /\ Submit(Head(call).req, Tail(call))
    BY <1>3 DEF Transmit, ProtectiveSubmit, Upcoming
  <2>2. Head(call).req \in Req
    BY <1>1, <2>1, HeadFacts
  <2>3. CASE Refused(Head(call).req, Tail(call))
    BY <2>3 DEF Refused
  <2>4. ASSUME NEW new \in Order, AcceptedAs(Head(call).req, new, Tail(call))
        PROVE  UNCHANGED books \/ \E side \in Sides, qty \in Nat \ {0}, ref \in Int : Books(side, qty, ref)
    <3>1. Append(orders, new) \in Seq(Order) /\ Len(orders) + 1 \in DOMAIN Append(orders, new)
      BY <1>1, AppendFacts
    <3>2. \/ Rests(Append(orders, new), Len(orders) + 1, Tail(call))
          \/ Fills(Append(orders, new), Len(orders) + 1, Tail(call))
      BY <2>4 DEF AcceptedAs
    <3> QED BY <1>2, <3>1, <3>2
  <2> QED BY <1>1, <2>1, <2>2, <2>3, <2>4, SubmitFacts
<1>4. ASSUME LookAt
      PROVE  UNCHANGED books \/ \E side \in Sides, qty \in Nat \ {0}, ref \in Int : Books(side, qty, ref)
  <2> DEFINE i == Head(call).order
  <2>1. call # <<>> /\ Head(call).task = "look"
    BY <1>4 DEF LookAt, Upcoming
  <2>2. Head(call).bar \in Bar /\ Head(call) = call[1] /\ 1 \in DOMAIN call
    BY <1>1, <2>1, HeadFacts
  <2>3. i \in DOMAIN orders
    BY <2>1, <2>2 DEF FamilyInv, CallFits, TaskFits
  <2>4. CASE UNCHANGED books
    BY <2>4
  <2>5. CASE EvaluateOrderFill(orders, i, Head(call).bar, Tail(call))
    <3>1. Rests(orders, i, Tail(call)) \/ Fills(orders, i, Tail(call))
      BY <1>1, <2>2, <2>3, <2>5, EvaluateFacts DEF Types
    <3>2. orders \in Seq(Order)
      BY <1>1 DEF Types
    <3> QED BY <1>2, <2>3, <3>1, <3>2
  <2> QED BY <1>4, <2>4, <2>5 DEF LookAt
<1>5. ASSUME PlaceOrder \/ PlaceOco \/ PlaceBracket \/ MarkPrice PROVE UNCHANGED books
  BY <1>1, <1>5, BeginFacts
<1>6. ASSUME \/ EngageKillSwitch
             \/ \E id \in KnownIds : CancelOrder(id) \/ \E a \in Amendments : ReplaceOrder(id, a)
      PROVE UNCHANGED books
  BY <1>1, <1>6, AdapterFacts
<1>7. ASSUME Tick \/ Refuse \/ FollowEntry \/ UNCHANGED vars PROVE UNCHANGED books
  BY <1>7 DEF Tick, Refuse, FollowEntry, vars
<1> QED BY <1>3, <1>4, <1>5, <1>6, <1>7 DEF AdapterNext, Next

LEMMA PositionStep ==
    ASSUME FamilyInv, position \in Int, [AdapterNext]_vars
    PROVE  position' \in Int
<1>1. CASE UNCHANGED books
  BY <1>1 DEF books
<1>2. ASSUME NEW side \in Sides, NEW qty \in Nat \ {0}, NEW ref \in Int, Books(side, qty, ref)
      PROVE  position' \in Int
  <2>1. position' = position + Direction(side) * qty
    BY <1>2 DEF Books, ApplyPosition
  <2> QED BY <2>1 DEF Direction
<1> QED BY <1>1, <1>2, BookStep

BrokerInv == FamilyInv /\ position \in Int

\* The inductive invariant holds throughout.
LEMMA BrokerAlways == AdapterSpec => []BrokerInv
<1>1. Init => BrokerInv
  BY FamilyInit DEF Init, BrokerInv
<1>2. BrokerInv /\ [AdapterNext]_vars => BrokerInv'
  BY FamilyNext, PositionStep DEF BrokerInv
<1> QED BY <1>1, <1>2, PTL DEF AdapterSpec

\* No leg of an OCO group that was in the ledger when another filled is live afterwards,
\* whatever else is placed, marked, cancelled, replaced or flattened; a leg that
\* place_oco sends after the fill is outside the statement.
THEOREM OcoAlwaysSettled == AdapterSpec => []OcoSettled
<1>1. BrokerInv => OcoSettled
  BY DEF BrokerInv, FamilyInv, SettledIn, OcoSettled, Filled, Live
<1> QED BY <1>1, BrokerAlways, PTL

\* Nor is a child of a bracket that was in the ledger when its twin filled; one sent
\* after that fill is outside the statement.
THEOREM TwinAlwaysSettled == AdapterSpec => []TwinSettled
<1>1. BrokerInv => TwinSettled
  BY DEF BrokerInv, FamilyInv, SettledIn, TwinSettled, Filled, Live
<1> QED BY <1>1, BrokerAlways, PTL

\* A protective child is in the ledger only behind a filled order with its parent's id.
THEOREM ChildrenAlwaysFollowEntry == AdapterSpec => []ChildrenFollowEntry
<1>1. BrokerInv => ChildrenFollowEntry
  BY DEF BrokerInv, FamilyInv, ChildrenIn, ChildrenFollowEntry, Filled
<1> QED BY <1>1, BrokerAlways, PTL
-----------------------------------------------------------------------------
(* Client ids.                                                             *)

Transmits(task) == task.task \in {"send", "protect"}

\* No id from uuid4() is carried twice, by orders, by the requests of the call and by
\* waiting children; and a call that leaves ids to the broker leaves all of them.
IdsFit(ledger, c, waiting) ==
    /\ \A i \in DOMAIN ledger : ledger[i].id # 0
    /\ \A i, j \in DOMAIN ledger : ledger[i].id > Callers /\ ledger[i].id = ledger[j].id => i = j
    /\ \A k, m \in DOMAIN c :
          Transmits(c[k]) /\ Transmits(c[m]) /\ c[k].req.id > Callers /\ c[k].req.id = c[m].req.id => k = m
    /\ \A k \in DOMAIN c, i \in DOMAIN ledger :
          Transmits(c[k]) /\ c[k].req.id > Callers => c[k].req.id # ledger[i].id
    /\ \A k, m \in DOMAIN c :
          Transmits(c[k]) /\ c[k].req.id = 0 => Transmits(c[m]) /\ c[m].req.id = 0
    /\ \A p \in DOMAIN waiting : \A n \in DOMAIN waiting[p] :
          /\ waiting[p][n].id > Callers
          /\ \A i \in DOMAIN ledger : waiting[p][n].id # ledger[i].id
          /\ \A k \in DOMAIN c : Transmits(c[k]) => c[k].req.id # waiting[p][n].id
          /\ \A q \in DOMAIN waiting : \A m \in DOMAIN waiting[q] :
                waiting[p][n].id = waiting[q][m].id => p = q /\ n = m

\* The orders of a ledger keep who they are.
Moved(old, new) == DOMAIN new = DOMAIN old /\ \A j \in DOMAIN old : SameOrder(old[j], new[j])

LEMMA MovedKeepsIds ==
    ASSUME NEW old, NEW new, NEW c, NEW waiting, Moved(old, new), IdsFit(old, c, waiting)
    PROVE  IdsFit(new, c, waiting)
<1>1. DOMAIN new = DOMAIN old /\ \A j \in DOMAIN old : new[j].id = old[j].id
  BY DEF Moved, SameOrder
<1> QED BY <1>1 DEF IdsFit

LEMMA EvaluatedMoved ==
    ASSUME NEW ledger, NEW k \in DOMAIN ledger, NEW rest,
           Rests(ledger, k, rest) \/ Fills(ledger, k, rest)
    PROVE  Moved(ledger, orders')
BY DEF Rests, Fills, OthersSettle, Moved

\* Dropping the head of a call.
LEMMA TailKeepsIds ==
    ASSUME Types, call # <<>>, IdsFit(orders, call, pending)
    PROVE  IdsFit(orders, Tail(call), pending)
<1>1. /\ DOMAIN Tail(call) = 1..Len(Tail(call)) /\ Len(Tail(call)) \in Nat
      /\ \A k \in 1..Len(Tail(call)) : Tail(call)[k] = call[k + 1] /\ k + 1 \in DOMAIN call
  <2>1. Tail(call) \in Seq(Task)
    BY HeadFacts
  <2> QED BY <2>1, HeadFacts
<1> DEFINE c == Tail(call)
<1>2. ASSUME NEW k \in DOMAIN c, NEW m \in DOMAIN c
      PROVE  /\ Transmits(c[k]) /\ Transmits(c[m]) /\ c[k].req.id > Callers /\ c[k].req.id = c[m].req.id => k = m
             /\ Transmits(c[k]) /\ c[k].req.id = 0 => Transmits(c[m]) /\ c[m].req.id = 0
  <2>1. c[k] = call[k + 1] /\ k + 1 \in DOMAIN call /\ c[m] = call[m + 1] /\ m + 1 \in DOMAIN call
        /\ k \in Nat /\ m \in Nat
    BY <1>1
  <2> HIDE DEF c
  <2>2. Transmits(c[k]) /\ Transmits(c[m]) /\ c[k].req.id > Callers /\ c[k].req.id = c[m].req.id => k + 1 = m + 1
    BY <2>1 DEF IdsFit
  <2>3. Transmits(c[k]) /\ c[k].req.id = 0 => Transmits(c[m]) /\ c[m].req.id = 0
    BY <2>1 DEF IdsFit
  <2> QED BY <2>1, <2>2, <2>3
<1>3. ASSUME NEW k \in DOMAIN c PROVE \E m \in DOMAIN call : c[k] = call[m]
  BY <1>1
<1> HIDE DEF c
<1> QED BY <1>2, <1>3 DEF IdsFit, c

\* A request that was in the call joins the ledger.
LEMMA AppendKeepsIds ==
    ASSUME Types, IdsFit(orders, call, pending), call # <<>>, Transmits(Head(call)),
           NEW new \in Order, new.id = IdOf(Head(call).req.id)
    PROVE  /\ IdsFit(Append(orders, new), Tail(call), pending)
           /\ (\E k \in DOMAIN Tail(call) : Transmits(Tail(call)[k]) /\ Tail(call)[k].req.id = 0)
                 => new.id \notin DOMAIN pending
<1> DEFINE req == Head(call).req
           ledger == Append(orders, new)
           c == Tail(call)
<1>1. /\ DOMAIN c = 1..Len(c) /\ Len(c) \in Nat /\ Head(call) = call[1] /\ 1 \in DOMAIN call
      /\ \A k \in 1..Len(c) : c[k] = call[k + 1] /\ k + 1 \in DOMAIN call
      /\ req \in Req
  <2>1. c \in Seq(Task)
    BY HeadFacts
  <2> QED BY <2>1, HeadFacts DEF Transmits
<1>2. IdsFit(orders, c, pending)
  BY TailKeepsIds
<1>3. /\ Len(orders) \in Nat /\ DOMAIN orders = 1..Len(orders) /\ DOMAIN ledger = 1..(Len(orders) + 1)
      /\ \A i \in DOMAIN orders : ledger[i] = orders[i] /\ orders[i].id \in Nat
      /\ ledger[Len(orders) + 1] = new
  BY AppendFacts DEF Order
<1>4. /\ FreshId \in Nat /\ FreshId > Callers /\ Callers \in Nat
      /\ \A i \in DOMAIN orders : orders[i].id < FreshId
      /\ \A id \in DOMAIN pending : \A n \in DOMAIN pending[id] : pending[id][n].id < FreshId
  BY FreshFacts, PaperBrokerConstants
<1>5. req.id \in Nat
  BY <1>1 DEF Req
<1>6. CASE req.id = 0
  <2>1. new.id = FreshId
    BY <1>6 DEF IdOf
  <2>2. \A k \in DOMAIN c : Transmits(c[k]) /\ c[k].req.id = 0
    <3>1. ASSUME NEW k \in DOMAIN c PROVE Transmits(c[k]) /\ c[k].req.id = 0
      <4>1. c[k] = call[k + 1] /\ k + 1 \in DOMAIN call
        BY <1>1
      <4>2. Transmits(call[1]) /\ call[1].req.id = 0
        BY <1>1, <1>6
      <4> HIDE DEF c
      <4> QED BY <1>1, <4>1, <4>2 DEF IdsFit
    <3> QED BY <3>1
  <2>3. new.id # 0 /\ new.id > Callers /\ \A i \in DOMAIN orders : orders[i].id # new.id
    BY <1>3, <1>4, <2>1
  <2>4. \A p \in DOMAIN pending : \A n \in DOMAIN pending[p] : pending[p][n].id # new.id
    <3>1. ASSUME NEW p \in DOMAIN pending, NEW n \in DOMAIN pending[p] PROVE pending[p][n].id # new.id
      <4>1. pending[p][n].id \in Nat
        <5>1. pending[p] \in Seq(Req)
          BY DEF Types
        <5>2. pending[p][n] \in Req
          BY <5>1
        <5> QED BY <5>2 DEF Req
      <4> QED BY <1>4, <2>1, <4>1
    <3> QED BY <3>1
  <2>5. new.id \notin DOMAIN pending
    BY <2>3 DEF Types, KnownIds
  <2> HIDE DEF c, ledger
  <2>6. \A i, j \in DOMAIN ledger : ledger[i].id > Callers /\ ledger[i].id = ledger[j].id => i = j
    <3>1. ASSUME NEW i \in DOMAIN ledger, NEW j \in DOMAIN ledger, ledger[i].id > Callers, ledger[i].id = ledger[j].id
          PROVE i = j
      <4>1. CASE i \in DOMAIN orders /\ j \in DOMAIN orders
        BY <1>2, <1>3, <3>1, <4>1 DEF IdsFit
      <4>2. CASE ~(i \in DOMAIN orders /\ j \in DOMAIN orders)
        <5>1. i \in DOMAIN orders \/ i = Len(orders) + 1
          BY <1>3
        <5>2. j \in DOMAIN orders \/ j = Len(orders) + 1
          BY <1>3
        <5> QED BY <1>3, <2>3, <3>1, <4>2, <5>1, <5>2
      <4> QED BY <4>1, <4>2
    <3> QED BY <3>1
  <2>7. \A i \in DOMAIN ledger : (i \in DOMAIN orders /\ ledger[i] = orders[i]) \/ ledger[i] = new
    BY <1>3
  <2>8. \A k \in DOMAIN c, i \in DOMAIN ledger : Transmits(c[k]) /\ c[k].req.id > Callers => c[k].req.id # ledger[i].id
    BY <1>4, <2>2
  <2>9. IdsFit(ledger, c, pending)
    BY <1>2, <2>3, <2>4, <2>6, <2>7, <2>8 DEF IdsFit
  <2> QED BY <2>5, <2>9 DEF c, ledger
<1>7. CASE req.id # 0
  <2>1. new.id = req.id
    BY <1>7 DEF IdOf
  <2>2. ASSUME NEW k \in DOMAIN c, Transmits(c[k])
        PROVE  /\ c[k].req.id # 0
               /\ c[k].req.id > Callers => c[k].req.id # new.id
    <3>1. c[k] = call[k + 1] /\ k + 1 \in DOMAIN call /\ k \in Nat /\ k + 1 # 1
      BY <1>1
    <3>2. Transmits(call[1]) /\ call[1].req.id = new.id /\ new.id # 0
      BY <1>1, <1>7, <2>1
    <3> HIDE DEF c
    <3>3. c[k].req.id # 0
      BY <1>1, <2>2, <3>1, <3>2 DEF IdsFit
    <3>4. ASSUME c[k].req.id > Callers, c[k].req.id = new.id PROVE FALSE
      <4>1. call[k + 1].req.id > Callers /\ call[k + 1].req.id = call[1].req.id
            /\ Transmits(call[k + 1])
        BY <2>2, <3>1, <3>2, <3>4
      <4>2. k + 1 = 1
        BY <1>1, <3>1, <3>2, <4>1 DEF IdsFit
      <4> QED BY <3>1, <4>2
    <3> QED BY <3>3, <3>4
  <2>3. new.id # 0 /\ (new.id > Callers => \A i \in DOMAIN orders : orders[i].id # new.id)
    <3>1. Transmits(call[1]) /\ call[1].req.id = new.id
      BY <1>1, <2>1
    <3> QED BY <1>1, <1>7, <2>1, <3>1 DEF IdsFit
  <2>4. \A p \in DOMAIN pending : \A n \in DOMAIN pending[p] : pending[p][n].id # new.id
    <3>1. Transmits(call[1]) /\ call[1].req.id = new.id
      BY <1>1, <2>1
    <3> QED BY <1>1, <3>1 DEF IdsFit
  <2> HIDE DEF c, ledger
  <2>6. \A i, j \in DOMAIN ledger : ledger[i].id > Callers /\ ledger[i].id = ledger[j].id => i = j
    <3>1. ASSUME NEW i \in DOMAIN ledger, NEW j \in DOMAIN ledger, ledger[i].id > Callers, ledger[i].id = ledger[j].id
          PROVE i = j
      <4>1. CASE i \in DOMAIN orders /\ j \in DOMAIN orders
        BY <1>2, <1>3, <3>1, <4>1 DEF IdsFit
      <4>2. CASE ~(i \in DOMAIN orders /\ j \in DOMAIN orders)
        <5>1. i \in DOMAIN orders \/ i = Len(orders) + 1
          BY <1>3
        <5>2. j \in DOMAIN orders \/ j = Len(orders) + 1
          BY <1>3
        <5> QED BY <1>3, <2>3, <3>1, <4>2, <5>1, <5>2
      <4> QED BY <4>1, <4>2
    <3> QED BY <3>1
  <2>7. \A i \in DOMAIN ledger : (i \in DOMAIN orders /\ ledger[i] = orders[i]) \/ ledger[i] = new
    BY <1>3
  <2>8. \A k \in DOMAIN c, i \in DOMAIN ledger : Transmits(c[k]) /\ c[k].req.id > Callers => c[k].req.id # ledger[i].id
    BY <1>2, <2>2, <2>7 DEF IdsFit
  <2>9. IdsFit(ledger, c, pending)
    BY <1>2, <2>3, <2>4, <2>6, <2>7, <2>8 DEF IdsFit
  <2> QED BY <2>2, <2>9 DEF c, ledger
<1> QED BY <1>6, <1>7

\* A fill moves the children that waited for it from "pending" into the call.
LEMMA EvaluatedKeepsIds ==
    ASSUME Types, NEW ledger, NEW i \in DOMAIN ledger, NEW rest \in Seq(Task),
           IdsFit(ledger, rest, pending),
           (\E k \in DOMAIN rest : Transmits(rest[k]) /\ rest[k].req.id = 0) => ledger[i].id \notin DOMAIN pending,
           Rests(ledger, i, rest) \/ Fills(ledger, i, rest)
    PROVE  IdsFit(orders', call', pending')
<1>1. Moved(ledger, orders')
  BY EvaluatedMoved
<1>2. SUFFICES IdsFit(ledger, call', pending')
  BY <1>1, MovedKeepsIds
<1>3. CASE Rests(ledger, i, rest)
  BY <1>3 DEF Rests
<1>4. CASE Fills(ledger, i, rest)
  <2> DEFINE id == ledger[i].id
             w == Waiting(id)
  <2>1. /\ call' = [m \in DOMAIN w |-> Send(w[m])] \o rest
        /\ pending' = [e \in DOMAIN pending \ {id} |-> pending[e]]
    BY <1>4 DEF Fills
  <2>2. /\ DOMAIN pending' \subseteq DOMAIN pending /\ id \notin DOMAIN pending'
        /\ \A p \in DOMAIN pending' : pending'[p] = pending[p]
    BY <2>1
  <2>3. w \in Seq(Req)
    BY DEF Waiting, Types
  <2>4. w = <<>> \/ (id \in DOMAIN pending /\ w = pending[id])
    BY DEF Waiting
  <2> HIDE DEF w, id
  <2>5. /\ DOMAIN call' = 1..(Len(w) + Len(rest))
        /\ Len(w) \in Nat /\ Len(rest) \in Nat /\ DOMAIN w = 1..Len(w) /\ DOMAIN rest = 1..Len(rest)
        /\ \A m \in 1..Len(w) : call'[m] = Send(w[m]) /\ w[m] \in Req
        /\ \A m \in (Len(w) + 1)..(Len(w) + Len(rest)) :
              call'[m] = rest[m - Len(w)] /\ m - Len(w) \in 1..Len(rest)
    BY <2>1, <2>3, PushFacts
  <2>6. ASSUME NEW m \in 1..Len(w)
        PROVE  /\ m \in DOMAIN w
               /\ id \in DOMAIN pending /\ m \in DOMAIN pending[id] /\ w[m] = pending[id][m]
               /\ Transmits(call'[m]) /\ call'[m].req = pending[id][m]
               /\ call'[m].req.id > Callers /\ call'[m].req.id # 0
    <3>1. m \in DOMAIN w
      BY <2>5
    <3>2. id \in DOMAIN pending /\ w = pending[id]
      <4>1. w # <<>>
        BY <3>1
      <4> QED BY <2>4, <4>1
    <3>3. call'[m] = Send(w[m])
      BY <2>5
    <3>4. Transmits(call'[m]) /\ call'[m].req = w[m]
      BY <3>3 DEF Send, Transmits
    <3>5. w[m].id > Callers
      BY <3>1, <3>2 DEF IdsFit
    <3>6. w[m].id # 0
      BY <2>5, <3>5, PaperBrokerConstants DEF Req
    <3> QED BY <3>1, <3>2, <3>4, <3>5, <3>6
  <2>7. ASSUME NEW m \in DOMAIN call', ~(m \in 1..Len(w))
        PROVE  m - Len(w) \in DOMAIN rest /\ call'[m] = rest[m - Len(w)] /\ m \in Nat
    BY <2>5, <2>7
  <2>8. ASSUME NEW k \in DOMAIN call', NEW m \in DOMAIN call', Transmits(call'[k]), Transmits(call'[m]),
               call'[k].req.id > Callers, call'[k].req.id = call'[m].req.id
        PROVE  k = m
    <3>1. CASE k \in 1..Len(w) /\ m \in 1..Len(w)
      <4>1. k \in DOMAIN pending[id] /\ m \in DOMAIN pending[id] /\ id \in DOMAIN pending
            /\ pending[id][k].id = pending[id][m].id
        BY <2>6, <2>8, <3>1
      <4> QED BY <4>1 DEF IdsFit
    <3>2. CASE k \in 1..Len(w) /\ ~(m \in 1..Len(w))
      <4>1. id \in DOMAIN pending /\ k \in DOMAIN pending[id] /\ call'[k].req = pending[id][k]
        BY <2>6, <3>2
      <4>2. m - Len(w) \in DOMAIN rest /\ call'[m] = rest[m - Len(w)]
        BY <2>7, <3>2
      <4>3. rest[m - Len(w)].req.id # pending[id][k].id
        BY <2>8, <4>1, <4>2 DEF IdsFit
      <4> QED BY <2>8, <4>1, <4>2, <4>3
    <3>3. CASE ~(k \in 1..Len(w)) /\ m \in 1..Len(w)
      <4>1. id \in DOMAIN pending /\ m \in DOMAIN pending[id] /\ call'[m].req = pending[id][m]
        BY <2>6, <3>3
      <4>2. k - Len(w) \in DOMAIN rest /\ call'[k] = rest[k - Len(w)]
        BY <2>7, <3>3
      <4>3. rest[k - Len(w)].req.id # pending[id][m].id
        BY <2>8, <4>1, <4>2 DEF IdsFit
      <4> QED BY <2>8, <4>1, <4>2, <4>3
    <3>4. CASE ~(k \in 1..Len(w)) /\ ~(m \in 1..Len(w))
      <4>1. /\ m - Len(w) \in DOMAIN rest /\ call'[m] = rest[m - Len(w)]
            /\ k - Len(w) \in DOMAIN rest /\ call'[k] = rest[k - Len(w)]
            /\ k \in Nat /\ m \in Nat
        BY <2>7, <3>4
      <4>2. k - Len(w) = m - Len(w)
        BY <2>8, <4>1 DEF IdsFit
      <4> QED BY <2>5, <4>1, <4>2
    <3> QED BY <3>1, <3>2, <3>3, <3>4
  <2>9. ASSUME NEW k \in DOMAIN call', NEW j \in DOMAIN ledger, Transmits(call'[k]), call'[k].req.id > Callers
        PROVE  call'[k].req.id # ledger[j].id
    <3>1. CASE k \in 1..Len(w)
      <4>1. id \in DOMAIN pending /\ k \in DOMAIN pending[id] /\ call'[k].req = pending[id][k]
        BY <2>6, <3>1
      <4> QED BY <4>1 DEF IdsFit
    <3>2. CASE ~(k \in 1..Len(w))
      <4>1. k - Len(w) \in DOMAIN rest /\ call'[k] = rest[k - Len(w)]
        BY <2>7, <3>2
      <4> QED BY <2>9, <4>1 DEF IdsFit
    <3> QED BY <3>1, <3>2
  <2>10. ASSUME NEW k \in DOMAIN call', NEW m \in DOMAIN call', Transmits(call'[k]), call'[k].req.id = 0
         PROVE  Transmits(call'[m]) /\ call'[m].req.id = 0
    <3>1. ~(k \in 1..Len(w))
      BY <2>6, <2>10
    <3>2. k - Len(w) \in DOMAIN rest /\ call'[k] = rest[k - Len(w)]
      BY <2>7, <3>1
    <3>3. id \notin DOMAIN pending
      BY <2>10, <3>2 DEF id
    <3>4. ~(m \in 1..Len(w))
      BY <2>6, <3>3
    <3>5. m - Len(w) \in DOMAIN rest /\ call'[m] = rest[m - Len(w)]
      BY <2>7, <3>4
    <3> QED BY <2>10, <3>2, <3>5 DEF IdsFit
  <2>11. ASSUME NEW p \in DOMAIN pending', NEW n \in DOMAIN pending'[p]
         PROVE  /\ pending'[p][n].id > Callers
                /\ \A j \in DOMAIN ledger : pending'[p][n].id # ledger[j].id
                /\ \A k \in DOMAIN call' : Transmits(call'[k]) => call'[k].req.id # pending'[p][n].id
                /\ \A q \in DOMAIN pending' : \A m \in DOMAIN pending'[q] :
                      pending'[p][n].id = pending'[q][m].id => p = q /\ n = m
    <3>1. p \in DOMAIN pending /\ p # id /\ pending'[p] = pending[p] /\ n \in DOMAIN pending[p]
      BY <2>2, <2>11
    <3>2. ASSUME NEW k \in DOMAIN call', Transmits(call'[k]) PROVE call'[k].req.id # pending'[p][n].id
      <4>1. CASE k \in 1..Len(w)
        <5>1. id \in DOMAIN pending /\ k \in DOMAIN pending[id] /\ call'[k].req = pending[id][k]
          BY <2>6, <4>1
        <5> QED BY <3>1, <5>1 DEF IdsFit
      <4>2. CASE ~(k \in 1..Len(w))
        <5>1. k - Len(w) \in DOMAIN rest /\ call'[k] = rest[k - Len(w)]
          BY <2>7, <4>2
        <5> QED BY <3>1, <3>2, <5>1 DEF IdsFit
      <4> QED BY <4>1, <4>2
    <3>3. pending'[p][n].id > Callers /\ \A j \in DOMAIN ledger : pending'[p][n].id # ledger[j].id
      BY <3>1 DEF IdsFit
    <3>4. \A q \in DOMAIN pending' : \A m \in DOMAIN pending'[q] :
              pending'[p][n].id = pending'[q][m].id => p = q /\ n = m
      BY <2>2, <3>1 DEF IdsFit
    <3> QED BY <3>2, <3>3, <3>4
  <2>12. \A j, k \in DOMAIN ledger : ledger[j].id > Callers /\ ledger[j].id = ledger[k].id => j = k
    BY DEF IdsFit
  <2>13. \A j \in DOMAIN ledger : ledger[j].id # 0
    BY DEF IdsFit
  <2> QED BY <2>8, <2>9, <2>10, <2>11, <2>12, <2>13 DEF IdsFit
<1> QED BY <1>3, <1>4

\* A call of a single request, or of two with ids of their own.
LEMMA FreshCall ==
    ASSUME Types, IdsFit(orders, call, pending), NEW ledger, Moved(orders, ledger), NEW c,
           NEW a \in Req, NEW b \in Req,
           \/ /\ DOMAIN c = 1..1 /\ Transmits(c[1]) /\ c[1].req = a /\ a.id \in (0..Callers) \union {FreshId}
           \/ /\ DOMAIN c = 1..2 /\ Transmits(c[1]) /\ c[1].req = a /\ a.id \in (1..Callers) \union {FreshId}
              /\ ~Transmits(c[2])
           \/ /\ DOMAIN c = 1..2 /\ Transmits(c[1]) /\ c[1].req = a /\ a.id = FreshId
              /\ Transmits(c[2]) /\ c[2].req = b /\ b.id = FreshId + 1
    PROVE  IdsFit(ledger, c, pending)
<1>1. /\ FreshId \in Nat /\ FreshId > Callers /\ Callers \in Nat
      /\ \A i \in DOMAIN orders : orders[i].id < FreshId
      /\ \A id \in DOMAIN pending : \A n \in DOMAIN pending[id] : pending[id][n].id < FreshId
  BY FreshFacts, PaperBrokerConstants
<1>2. \A i \in DOMAIN orders : orders[i].id \in Nat /\ orders[i].id # FreshId /\ orders[i].id # FreshId + 1
  <2>1. \A i \in DOMAIN orders : orders[i] \in Order
    BY DEF Types
  <2>2. \A i \in DOMAIN orders : orders[i].id \in Nat
    BY <2>1 DEF Order
  <2> QED BY <1>1, <2>2
<1>3. \A p \in DOMAIN pending : \A n \in DOMAIN pending[p] :
          pending[p][n].id \in Nat /\ pending[p][n].id > Callers
          /\ pending[p][n].id # FreshId /\ pending[p][n].id # FreshId + 1
  <2>1. ASSUME NEW p \in DOMAIN pending, NEW n \in DOMAIN pending[p]
        PROVE  pending[p][n].id \in Nat
    <3>1. pending[p] \in Seq(Req)
      BY DEF Types
    <3>2. pending[p][n] \in Req
      BY <3>1
    <3> QED BY <3>2 DEF Req
  <2>2. \A p \in DOMAIN pending : \A n \in DOMAIN pending[p] : pending[p][n].id > Callers
    BY DEF IdsFit
  <2> QED BY <1>1, <2>1, <2>2
<1>4. ASSUME NEW k \in DOMAIN c, Transmits(c[k])
      PROVE  /\ c[k].req.id \in (0..Callers) \union {FreshId, FreshId + 1}
             /\ k \in 1..2
  BY <1>1, <1>4
<1>5. ASSUME NEW k \in DOMAIN c, NEW m \in DOMAIN c
      PROVE  /\ Transmits(c[k]) /\ Transmits(c[m]) /\ c[k].req.id > Callers /\ c[k].req.id = c[m].req.id => k = m
             /\ Transmits(c[k]) /\ c[k].req.id = 0 => Transmits(c[m]) /\ c[m].req.id = 0
  BY <1>1
<1>6. \A i \in DOMAIN ledger : i \in DOMAIN orders /\ ledger[i].id = orders[i].id
  BY DEF Moved, SameOrder
<1>7. \A k \in DOMAIN c, i \in DOMAIN ledger :
          Transmits(c[k]) /\ c[k].req.id > Callers => c[k].req.id # ledger[i].id
  BY <1>1, <1>2, <1>4, <1>6
<1>8. \A p \in DOMAIN pending : \A n \in DOMAIN pending[p] : \A k \in DOMAIN c :
          Transmits(c[k]) => c[k].req.id # pending[p][n].id
  BY <1>1, <1>3, <1>4
<1> QED BY <1>5, <1>6, <1>7, <1>8 DEF IdsFit

\* The time of each id's last acceptance is kept, and accepted orders with one id are
\* a window apart.
Stamped(ledger, stamps, time) ==
    /\ \A id \in DOMAIN stamps : stamps[id] \in 0..time
    /\ \A i \in DOMAIN ledger : ledger[i].at >= 0 /\ ledger[i].id <= Callers =>
          ledger[i].id \in DOMAIN stamps /\ ledger[i].at <= stamps[ledger[i].id]
    /\ \A i, j \in DOMAIN ledger :
          ledger[i].at >= 0 /\ ledger[j].at >= 0 /\ i < j /\ ledger[i].id = ledger[j].id
              => ledger[j].at - ledger[i].at >= Window

LEMMA MovedKeepsStamps ==
    ASSUME NEW old, NEW new, NEW stamps, NEW time, Moved(old, new), Stamped(old, stamps, time)
    PROVE  Stamped(new, stamps, time)
<1>1. DOMAIN new = DOMAIN old /\ \A j \in DOMAIN old : new[j].id = old[j].id /\ new[j].at = old[j].at
  BY DEF Moved, SameOrder
<1> QED BY <1>1 DEF Stamped

IdsInv == BrokerInv /\ IdsFit(orders, call, pending) /\ Stamped(orders, seenIds, now)

LEMMA SubmitKeepsIds ==
    ASSUME IdsInv, call # <<>>, Transmits(Head(call)), Submit(Head(call).req, Tail(call)), UNCHANGED now
    PROVE  IdsFit(orders', call', pending') /\ Stamped(orders', seenIds', now')
<1> DEFINE req == Head(call).req
           k == Len(orders) + 1
<1>1. Types /\ IdsFit(orders, call, pending) /\ Stamped(orders, seenIds, now) /\ now \in Nat
  BY DEF IdsInv, BrokerInv, FamilyInv, Types
<1>2. req \in Req /\ Tail(call) \in Seq(Task)
  BY <1>1, HeadFacts DEF Transmits
<1>3. Window \in Nat \ {0} /\ Callers \in Nat /\ FreshId > Callers
  BY <1>1, FreshFacts, PaperBrokerConstants
<1>4. CASE Refused(req, Tail(call))
  <2>1. PICK new \in Order : Becomes(new, req, 0, 0, "REJECTED", -1) /\ orders' = Append(orders, new)
    BY <1>4 DEF Refused
  <2>2. call' = Tail(call) /\ pending' = pending /\ seenIds' = seenIds
    BY <1>4 DEF Refused
  <2>3. IdsFit(orders', call', pending')
    BY <1>1, <2>1, <2>2, AppendKeepsIds DEF Becomes
  <2>4. new.at = -1
    BY <2>1 DEF Becomes
  <2>5. \A i \in DOMAIN orders' : (i \in DOMAIN orders /\ orders'[i] = orders[i]) \/ orders'[i].at = -1
    BY <1>1, <2>1, <2>4, AppendFacts
  <2>6. Stamped(orders', seenIds', now')
    BY <1>1, <2>2, <2>5 DEF Stamped
  <2> QED BY <2>3, <2>6
<1>5. ASSUME NEW new \in Order, AcceptedAs(req, new, Tail(call))
      PROVE  IdsFit(orders', call', pending') /\ Stamped(orders', seenIds', now')
  <2> DEFINE ledger == Append(orders, new)
  <2>1. new.id = IdOf(req.id) /\ new.at = now
    BY <1>5 DEF AcceptedAs, Becomes
  <2>2. /\ DOMAIN orders = 1..Len(orders) /\ Len(orders) \in Nat /\ DOMAIN ledger = 1..k
        /\ k \in DOMAIN ledger /\ ledger[k] = new
        /\ \A i \in DOMAIN orders : ledger[i] = orders[i] /\ orders[i] \in Order
    BY <1>1, AppendFacts
  <2>3. /\ IdsFit(ledger, Tail(call), pending)
        /\ (\E m \in DOMAIN Tail(call) : Transmits(Tail(call)[m]) /\ Tail(call)[m].req.id = 0)
              => new.id \notin DOMAIN pending
    BY <1>1, <2>1, AppendKeepsIds
  <2>4. Rests(ledger, k, Tail(call)) \/ Fills(ledger, k, Tail(call))
    BY <1>5 DEF AcceptedAs
  <2>5. /\ req.id # 0 => ~Within(seenIds, req.id)
        /\ seenIds' = IF req.id = 0 THEN seenIds ELSE Put(seenIds, req.id, now)
    BY <1>5 DEF AcceptedAs
  <2> HIDE DEF ledger, k
  <2>6. IdsFit(orders', call', pending')
    BY <1>1, <1>2, <2>2, <2>3, <2>4, EvaluatedKeepsIds
  <2>7. Moved(ledger, orders')
    BY <2>2, <2>4, EvaluatedMoved
  <2>8. req.id \in Nat
    BY <1>2 DEF Req
  <2>9. ASSUME NEW i \in DOMAIN orders
        PROVE  ledger[i].id \in Nat /\ ledger[i].at \in Int /\ ledger[i] = orders[i]
    BY <2>2 DEF Order
  <2>10. /\ DOMAIN seenIds \subseteq DOMAIN seenIds' /\ (req.id # 0 => req.id \in DOMAIN seenIds' /\ seenIds'[req.id] = now)
         /\ \A id \in DOMAIN seenIds' : id \in DOMAIN seenIds /\ id # req.id => seenIds'[id] = seenIds[id]
         /\ \A id \in DOMAIN seenIds' : id \notin DOMAIN seenIds => seenIds'[id] = now
         /\ \A id \in DOMAIN seenIds' : seenIds'[id] \in 0..now
    <3>1. CASE req.id = 0
      BY <1>1, <2>5, <3>1 DEF Stamped
    <3>2. CASE req.id # 0
      <4>1. seenIds' = [id \in DOMAIN seenIds \union {req.id} |-> IF id = req.id THEN now ELSE seenIds[id]]
        BY <2>5, <3>2 DEF Put
      <4> QED BY <1>1, <4>1 DEF Stamped
    <3> QED BY <3>1, <3>2
  <2>11. ASSUME NEW i \in DOMAIN ledger, ledger[i].at >= 0, ledger[i].id <= Callers
         PROVE  ledger[i].id \in DOMAIN seenIds' /\ ledger[i].at <= seenIds'[ledger[i].id]
    <3>1. CASE i \in DOMAIN orders
      <4>1. ledger[i].id \in DOMAIN seenIds /\ ledger[i].at <= seenIds[ledger[i].id] /\ seenIds[ledger[i].id] \in 0..now
        BY <1>1, <2>9, <2>11, <3>1 DEF Stamped
      <4>2. CASE ledger[i].id = req.id
        <5>1. req.id \in DOMAIN seenIds' /\ seenIds'[req.id] \in 0..now
          BY <2>10, <4>1, <4>2
        <5>2. CASE req.id = 0
          BY <2>5, <4>1, <5>2
        <5>3. CASE req.id # 0
          BY <1>1, <2>9, <2>10, <3>1, <4>1, <4>2, <5>3
        <5> QED BY <5>2, <5>3
      <4>3. CASE ledger[i].id # req.id
        BY <2>10, <4>1, <4>3
      <4> QED BY <4>2, <4>3
    <3>2. CASE i = k
      <4>1. req.id # 0 /\ ledger[i].id = req.id
        BY <1>1, <1>3, <2>1, <2>2, <2>11, <3>2, FreshFacts DEF IdOf
      <4> QED BY <1>1, <2>1, <2>2, <2>10, <3>2, <4>1
    <3> QED BY <2>2, <3>1, <3>2 DEF k
  <2>12. ASSUME NEW i \in DOMAIN ledger, NEW j \in DOMAIN ledger, ledger[i].at >= 0, ledger[j].at >= 0,
                i < j, ledger[i].id = ledger[j].id
         PROVE  ledger[j].at - ledger[i].at >= Window
    <3>1. i \in DOMAIN orders
      BY <2>2, <2>12 DEF k
    <3>2. CASE j \in DOMAIN orders
      BY <1>1, <2>9, <2>12, <3>1, <3>2 DEF Stamped
    <3>3. CASE j = k
      <4>0. ledger[i].id \in Nat /\ ledger[j].id \in Nat /\ i # j
        BY <2>2, <2>9, <2>12, <3>1
      <4>1. ledger[i].id <= Callers
        <5>1. ~(ledger[i].id > Callers)
          BY <2>3, <2>12, <4>0 DEF IdsFit
        <5> QED BY <1>3, <4>0, <5>1
      <4>2. req.id # 0 /\ ledger[j].id = req.id
        BY <1>1, <1>3, <2>1, <2>2, <2>12, <3>3, <4>1, FreshFacts DEF IdOf
      <4>3. /\ req.id \in DOMAIN seenIds /\ ledger[i].at <= seenIds[req.id]
            /\ seenIds[req.id] \in 0..now
        BY <1>1, <2>9, <2>12, <3>1, <4>1, <4>2 DEF Stamped
      <4>4. ~(now - seenIds[req.id] < Window)
        BY <2>5, <4>2, <4>3 DEF Within
      <4>5. ledger[j].at = now
        BY <2>1, <2>2, <3>3
      <4> QED BY <1>1, <1>3, <2>9, <3>1, <4>3, <4>4, <4>5
    <3> QED BY <2>2, <3>2, <3>3 DEF k
  <2>13. now' = now
    OBVIOUS
  <2>14. Stamped(ledger, seenIds', now)
    BY <2>10, <2>11, <2>12 DEF Stamped
  <2>15. Stamped(orders', seenIds', now)
    BY <2>7, <2>14, MovedKeepsStamps
  <2>16. Stamped(orders', seenIds', now')
    BY <2>13, <2>15 DEF Stamped
  <2> QED BY <2>6, <2>16
<1> QED BY <1>1, <1>2, <1>4, <1>5, SubmitFacts

LEMMA EmptyCallIds ==
    ASSUME NEW ledger, NEW c, NEW waiting, NEW d, IdsFit(ledger, c, waiting), DOMAIN d = {}
    PROVE  IdsFit(ledger, d, waiting)
BY DEF IdsFit

LEMMA LookKeepsIds ==
    ASSUME IdsInv, LookAt
    PROVE  IdsFit(orders', call', pending') /\ Moved(orders, orders') /\ UNCHANGED <<guards, now>>
<1> DEFINE i == Head(call).order
<1>1. /\ Types /\ CallFits /\ IdsFit(orders, call, pending)
      /\ call # <<>> /\ Head(call).task = "look" /\ orders \in Seq(Order)
  BY DEF IdsInv, BrokerInv, FamilyInv, LookAt, Upcoming, Types
<1>2. /\ Head(call).bar \in Bar /\ Head(call) = call[1] /\ 1 \in DOMAIN call /\ Tail(call) \in Seq(Task)
      /\ \A m \in 1..Len(Tail(call)) : Tail(call)[m] = call[m + 1] /\ m + 1 \in DOMAIN call
  BY <1>1, HeadFacts
<1>3. i \in DOMAIN orders
  BY <1>1, <1>2 DEF CallFits, TaskFits
<1>4. IdsFit(orders, Tail(call), pending)
  BY <1>1, TailKeepsIds
<1>5. UNCHANGED <<guards, now>>
  BY DEF LookAt
<1>6. \A j \in DOMAIN orders : orders[j] \in Order
  BY <1>1
<1>7. CASE IsTerminal(orders[i])
  BY <1>4, <1>5, <1>6, <1>7 DEF LookAt, Moved, SameOrder
<1>8. CASE ~IsTerminal(orders[i])
  <2>1. EvaluateOrderFill(orders, i, Head(call).bar, Tail(call))
    BY <1>8 DEF LookAt
  <2>2. Rests(orders, i, Tail(call)) \/ Fills(orders, i, Tail(call))
    BY <1>1, <1>2, <1>3, <2>1, EvaluateFacts
  <2>3. ASSUME NEW k \in DOMAIN Tail(call), Transmits(Tail(call)[k]), Tail(call)[k].req.id = 0 PROVE FALSE
    <3>1. DOMAIN Tail(call) = 1..Len(Tail(call))
      BY <1>2
    <3>2. Tail(call)[k] = call[k + 1] /\ k + 1 \in DOMAIN call
      BY <1>2, <3>1
    <3>3. Transmits(call[1])
      BY <1>1, <1>2, <2>3, <3>2 DEF IdsFit
    <3> QED BY <1>1, <1>2, <3>3 DEF Transmits
  <2>4. IdsFit(orders', call', pending')
    BY <1>1, <1>2, <1>3, <1>4, <2>2, <2>3, EvaluatedKeepsIds
  <2>5. Moved(orders, orders')
    BY <1>3, <2>2, EvaluatedMoved
  <2> QED BY <1>5, <2>4, <2>5
<1> QED BY <1>7, <1>8

LEMMA FollowKeepsIds ==
    ASSUME IdsInv, FollowEntry
    PROVE  IdsFit(orders', call', pending') /\ UNCHANGED <<orders, guards, now>>
<1>1. Types /\ CallFits /\ IdsFit(orders, call, pending)
  BY DEF IdsInv, BrokerInv, FamilyInv
<1>2. PICK e \in DOMAIN orders, tp \in Req, sl \in Req :
          /\ Head(call).entry = e
          /\ tp.parent = orders[e].id /\ sl.parent = orders[e].id
          /\ tp.id = FreshId /\ sl.id = FreshId + 1
          /\ \/ /\ orders[e].state = "FILLED"
                /\ call' = <<Send(tp), Send(sl)>> /\ pending' = pending
             \/ /\ call' = <<>>
                /\ pending' = Put(pending, orders[e].id, Waiting(orders[e].id) \o <<tp, sl>>)
          /\ UNCHANGED <<orders, books, guards, mark, now>>
  BY <1>1, FollowFacts
<1>3. Moved(orders, orders)
  BY <1>1 DEF Types, Moved, SameOrder
<1>4. CASE call' = <<Send(tp), Send(sl)>> /\ pending' = pending
  <2>1. /\ DOMAIN call' = 1..2 /\ Transmits(call'[1]) /\ call'[1].req = tp
        /\ Transmits(call'[2]) /\ call'[2].req = sl
    BY <1>4 DEF Send, Transmits
  <2>2. IdsFit(orders, call', pending)
    BY <1>1, <1>2, <1>3, <2>1, FreshCall
  <2> QED BY <1>2, <1>4, <2>2
<1>5. CASE call' = <<>> /\ pending' = Put(pending, orders[e].id, Waiting(orders[e].id) \o <<tp, sl>>)
  <2> DEFINE id == orders[e].id
             w == Waiting(id)
             queue == w \o <<tp, sl>>
  <2>1. w \in Seq(Req) /\ (w = <<>> \/ (id \in DOMAIN pending /\ w = pending[id]))
    BY <1>1 DEF Waiting, Types
  <2>2. /\ Len(w) \in Nat /\ DOMAIN w = 1..Len(w) /\ DOMAIN queue = 1..(Len(w) + 2)
        /\ \A n \in 1..Len(w) : queue[n] = w[n]
        /\ queue[Len(w) + 1] = tp /\ queue[Len(w) + 2] = sl
    <3> HIDE DEF w
    <3> QED BY <2>1
  <2>3. id \notin DOMAIN pending => w = <<>>
    BY DEF Waiting
  <2>4. id \in DOMAIN pending => w = pending[id]
    BY DEF Waiting
  <2> HIDE DEF w
  <2>5. /\ DOMAIN pending' = DOMAIN pending \union {id}
        /\ \A p \in DOMAIN pending' : pending'[p] = IF p = id THEN queue ELSE pending[p]
    BY <1>5 DEF Put, w
  <2> HIDE DEF queue, id
  <2>6. /\ FreshId \in Nat /\ FreshId > Callers /\ Callers \in Nat
        /\ \A i \in DOMAIN orders : orders[i].id < FreshId
        /\ \A p \in DOMAIN pending : \A n \in DOMAIN pending[p] : pending[p][n].id < FreshId
    BY <1>1, FreshFacts, PaperBrokerConstants
  <2> DEFINE Old(p, n) == p \in DOMAIN pending /\ n \in DOMAIN pending[p] /\ pending'[p][n] = pending[p][n]
  <2>7. ASSUME NEW p \in DOMAIN pending', NEW n \in DOMAIN pending'[p]
        PROVE  \/ Old(p, n)
               \/ p = id /\ n = Len(w) + 1 /\ pending'[p][n].id = FreshId
               \/ p = id /\ n = Len(w) + 2 /\ pending'[p][n].id = FreshId + 1
    <3>1. CASE p # id
      BY <2>5, <3>1
    <3>2. CASE p = id
      <4>1. pending'[p] = queue
        BY <2>5, <3>2
      <4>2. n \in 1..(Len(w) + 2)
        BY <2>2, <2>7, <4>1
      <4>3. CASE n \in 1..Len(w)
        <5>1. w # <<>>
          BY <2>2, <4>3
        <5>2. id \in DOMAIN pending /\ w = pending[id]
          BY <2>3, <2>4, <5>1
        <5> QED BY <2>2, <3>2, <4>1, <4>3, <5>2
      <4>4. CASE n = Len(w) + 1
        BY <1>2, <2>2, <3>2, <4>1, <4>4
      <4>5. CASE n = Len(w) + 2
        BY <1>2, <2>2, <3>2, <4>1, <4>5
      <4> QED BY <2>2, <4>2, <4>3, <4>4, <4>5
    <3> QED BY <3>1, <3>2
  <2> HIDE DEF Old
  <2>8. \A i \in DOMAIN orders : orders[i].id \in Nat /\ orders[i].id # FreshId /\ orders[i].id # FreshId + 1
    <3>1. \A i \in DOMAIN orders : orders[i] \in Order
      BY <1>1 DEF Types
    <3>2. \A i \in DOMAIN orders : orders[i].id \in Nat
      BY <3>1 DEF Order
    <3> QED BY <2>6, <3>2
  <2>9. \A p \in DOMAIN pending : \A n \in DOMAIN pending[p] :
            pending[p][n].id # FreshId /\ pending[p][n].id # FreshId + 1
    <3>1. ASSUME NEW p \in DOMAIN pending, NEW n \in DOMAIN pending[p] PROVE pending[p][n].id \in Nat
      <4>1. pending[p] \in Seq(Req)
        BY <1>1 DEF Types
      <4>2. pending[p][n] \in Req
        BY <4>1
      <4> QED BY <4>2 DEF Req
    <3> QED BY <2>6, <3>1
  <2>10. ASSUME NEW p \in DOMAIN pending', NEW n \in DOMAIN pending'[p],
                NEW q \in DOMAIN pending', NEW m \in DOMAIN pending'[q], pending'[p][n].id = pending'[q][m].id
         PROVE  p = q /\ n = m
    <3>1. CASE Old(p, n) /\ Old(q, m)
      BY <1>1, <2>10, <3>1 DEF IdsFit, Old
    <3>2. CASE Old(p, n) /\ ~Old(q, m)
      BY <2>7, <2>9, <2>10, <3>2 DEF Old
    <3>3. CASE ~Old(p, n) /\ Old(q, m)
      BY <2>7, <2>9, <2>10, <3>3 DEF Old
    <3>4. CASE ~Old(p, n) /\ ~Old(q, m)
      BY <2>6, <2>7, <2>10, <3>4
    <3> QED BY <3>1, <3>2, <3>3, <3>4
  <2>11. ASSUME NEW p \in DOMAIN pending', NEW n \in DOMAIN pending'[p]
         PROVE  pending'[p][n].id > Callers /\ \A i \in DOMAIN orders : pending'[p][n].id # orders[i].id
    <3>1. CASE Old(p, n)
      BY <1>1, <3>1 DEF IdsFit, Old
    <3>2. CASE pending'[p][n].id = FreshId \/ pending'[p][n].id = FreshId + 1
      BY <2>6, <2>8, <3>2
    <3> QED BY <2>7, <3>1, <3>2
  <2>12. DOMAIN call' = {}
    BY <1>5
  <2>13. IdsFit(orders, call', pending')
    BY <1>1, <2>10, <2>11, <2>12 DEF IdsFit
  <2> QED BY <1>2, <2>13
<1> QED BY <1>2, <1>4, <1>5

LEMMA BeginKeepsIds ==
    ASSUME IdsInv, PlaceOrder \/ PlaceOco \/ PlaceBracket \/ MarkPrice
    PROVE  IdsFit(orders', call', pending')
<1>1. /\ Types /\ IdsFit(orders, call, pending) /\ UNCHANGED <<orders, pending>>
      /\ Moved(orders, orders) /\ FreshId > Callers
  <2>1. Types /\ IdsFit(orders, call, pending) /\ \A j \in DOMAIN orders : orders[j] \in Order
    BY DEF IdsInv, BrokerInv, FamilyInv, Types
  <2>2. UNCHANGED <<orders, pending>>
    BY <2>1, BeginFacts
  <2> QED BY <2>1, <2>2, FreshFacts DEF Moved, SameOrder
<1>2. CASE PlaceOrder
  <2>1. PICK template \in Singles, id \in 0..Callers : call' = <<Send(Request(template, id, 0))>>
    BY <1>1, <1>2, BeginFacts
  <2> DEFINE a == Request(template, id, 0)
  <2>2. a \in Req /\ a.id = id
    <3>1. template \in Templates /\ id \in Nat /\ 0 \in Nat
      BY PaperBrokerConstants
    <3> QED BY <1>1, <3>1, RequestFacts
  <2> HIDE DEF a
  <2>3. DOMAIN call' = 1..1 /\ Transmits(call'[1]) /\ call'[1].req = a
    BY <2>1 DEF a, Send, Transmits
  <2>4. IdsFit(orders, call', pending)
    BY <1>1, <2>2, <2>3, FreshCall
  <2> QED BY <1>1, <2>4
<1>3. CASE PlaceBracket
  <2>1. PICK b \in Brackets, id \in 0..Callers :
            call' = <<Send(Request(b.entry, IdOf(id), 0)),
                      [task |-> "follow", entry |-> Len(orders) + 1, bracket |-> b]>>
    BY <1>1, <1>3, BeginFacts
  <2> DEFINE a == Request(b.entry, IdOf(id), 0)
             t == [task |-> "follow", entry |-> Len(orders) + 1, bracket |-> b]
  <2>2. IdOf(id) \in (1..Callers) \union {FreshId} /\ IdOf(id) \in Nat
    BY <1>1, FreshFacts, PaperBrokerConstants DEF IdOf
  <2>3. a \in Req /\ a.id = IdOf(id)
    <3>1. b.entry \in Templates /\ 0 \in Nat
      BY PaperBrokerConstants DEF BracketTemplates
    <3> QED BY <1>1, <2>2, <3>1, RequestFacts
  <2>4. ~Transmits(t)
    BY DEF Transmits
  <2> HIDE DEF a, t
  <2>5. /\ DOMAIN call' = 1..2 /\ Transmits(call'[1]) /\ call'[1].req = a
        /\ call'[2] = t
    <3>1. call' = <<Send(a), t>>
      BY <2>1 DEF a, t
    <3> QED BY <3>1 DEF Send, Transmits
  <2>6. IdsFit(orders, call', pending)
    BY <1>1, <2>2, <2>3, <2>4, <2>5, FreshCall
  <2> QED BY <1>1, <2>6
<1>4. CASE PlaceOco
  <2>1. PICK legs \in OcoGroups : call' = [k \in DOMAIN legs |-> Send(Request(legs[k], 0, FreshGroup))]
    BY <1>1, <1>4, BeginFacts
  <2>2. legs \in Seq(Templates)
    BY PaperBrokerConstants
  <2>3. ASSUME NEW k \in DOMAIN call' PROVE Transmits(call'[k]) /\ call'[k].req.id = 0
    <3>1. call'[k] = Send(Request(legs[k], 0, FreshGroup))
      BY <2>1
    <3> QED BY <3>1 DEF Send, Request, Transmits
  <2>4. \A p \in DOMAIN pending : \A n \in DOMAIN pending[p] : pending[p][n].id # 0
    BY <1>1, PaperBrokerConstants DEF IdsFit
  <2>5. IdsFit(orders, call', pending)
    BY <1>1, <2>3, <2>4, PaperBrokerConstants DEF IdsFit
  <2> QED BY <1>1, <2>5
<1>5. CASE MarkPrice
  <2>1. PICK bar \in Bars : call' = [i \in DOMAIN orders |-> Look(i, bar)]
    BY <1>1, <1>5, BeginFacts
  <2>2. \A k \in DOMAIN call' : ~Transmits(call'[k])
    BY <2>1 DEF Look, Transmits
  <2>3. IdsFit(orders, call', pending)
    BY <1>1, <2>2 DEF IdsFit
  <2> QED BY <1>1, <2>3
<1> QED BY <1>2, <1>3, <1>4, <1>5

LEMMA RetireKeepsIds ==
    ASSUME IdsInv,
           \/ EngageKillSwitch
           \/ \E id \in KnownIds : CancelOrder(id) \/ \E a \in Amendments : ReplaceOrder(id, a)
    PROVE  IdsFit(orders', call', pending') /\ Moved(orders, orders') /\ UNCHANGED <<guards, now>>
<1>1. Types /\ IdsFit(orders, call, pending) /\ position \in Int
  BY DEF IdsInv, BrokerInv, FamilyInv
<1>2. /\ Retires(orders, orders') /\ UNCHANGED <<pending, guards, now>>
      /\ \/ UNCHANGED call
         \/ call' = <<>>
         \/ position # 0 /\ call' = <<[task |-> "protect", req |-> FlattenRequest]>>
  BY <1>1, AdapterFacts
<1>3. Moved(orders, orders')
  BY <1>2 DEF Retires, Grows, Moved
<1>4. CASE UNCHANGED call
  BY <1>1, <1>2, <1>3, <1>4, MovedKeepsIds
<1>5. CASE call' = <<>>
  <2>1. IdsFit(orders, call', pending')
    BY <1>1, <1>2, <1>5, EmptyCallIds
  <2> QED BY <1>2, <1>3, <2>1, MovedKeepsIds
<1>6. CASE position # 0 /\ call' = <<[task |-> "protect", req |-> FlattenRequest]>>
  <2>1. DOMAIN call' = 1..1 /\ Transmits(call'[1]) /\ call'[1].req = FlattenRequest
    BY <1>6 DEF Transmits
  <2>2. FlattenRequest \in Req /\ FlattenRequest.id = FreshId
    BY <1>1, <1>6, FlattenFacts
  <2>3. IdsFit(orders', call', pending)
    BY <1>1, <1>3, <2>1, <2>2, FreshCall
  <2> QED BY <1>2, <1>3, <2>3
<1> QED BY <1>2, <1>4, <1>5, <1>6

LEMMA IdsNext ==
    ASSUME IdsInv, [AdapterNext]_vars
    PROVE  IdsInv'
<1>1. BrokerInv'
  BY FamilyNext, PositionStep DEF IdsInv, BrokerInv
<1>2. Types /\ IdsFit(orders, call, pending) /\ Stamped(orders, seenIds, now) /\ now \in Nat
  BY DEF IdsInv, BrokerInv, FamilyInv, Types
<1>3. SUFFICES IdsFit(orders', call', pending') /\ Stamped(orders', seenIds', now')
  BY <1>1 DEF IdsInv
<1>4. ASSUME UNCHANGED <<orders, guards, now>> PROVE Stamped(orders', seenIds', now')
  BY <1>2, <1>4 DEF guards
<1>5. CASE PlaceOrder \/ PlaceOco \/ PlaceBracket \/ MarkPrice
  BY <1>2, <1>4, <1>5, BeginFacts, BeginKeepsIds
<1>6. CASE Tick
  <2>1. UNCHANGED <<orders, call, pending, seenIds>> /\ now' = now + 1
    BY <1>6 DEF Tick, guards
  <2>2. \A id \in DOMAIN seenIds : seenIds[id] \in 0..now'
    BY <1>2, <2>1 DEF Stamped
  <2>3. Stamped(orders, seenIds, now')
    BY <1>2, <2>2 DEF Stamped
  <2> QED BY <1>2, <2>1, <2>3
<1>7. CASE Transmit \/ ProtectiveSubmit
  BY <1>7, SubmitKeepsIds DEF Transmit, ProtectiveSubmit, Upcoming, Transmits
<1>8. CASE Refuse
  BY <1>2, <1>4, <1>8, EmptyCallIds DEF Refuse
<1>9. CASE LookAt
  <2>1. IdsFit(orders', call', pending') /\ Moved(orders, orders') /\ seenIds' = seenIds /\ now' = now
    BY <1>9, LookKeepsIds DEF guards
  <2> QED BY <1>2, <2>1, MovedKeepsStamps
<1>10. CASE FollowEntry
  BY <1>2, <1>4, <1>10, FollowKeepsIds
<1>11. CASE \/ EngageKillSwitch
            \/ \E id \in KnownIds : CancelOrder(id) \/ \E a \in Amendments : ReplaceOrder(id, a)
  <2>1. IdsFit(orders', call', pending') /\ Moved(orders, orders') /\ seenIds' = seenIds /\ now' = now
    BY <1>11, RetireKeepsIds DEF guards
  <2> QED BY <1>2, <2>1, MovedKeepsStamps
<1>12. CASE UNCHANGED vars
  BY <1>2, <1>4, <1>12 DEF vars
<1> QED BY <1>5, <1>6, <1>7, <1>8, <1>9, <1>10, <1>11, <1>12 DEF AdapterNext, Next

\* A client id is accepted at most once within the duplicate window, children, OCO legs
\* and the kill switch's own order included.
THEOREM IdsAlwaysAcceptedOnce == AdapterSpec => []IdsAcceptedOnce
<1>1. Init => IdsInv
  <2>1. Init => DOMAIN orders = {} /\ DOMAIN call = {} /\ DOMAIN pending = {} /\ DOMAIN seenIds = {}
    BY DEF Init
  <2>2. Init => BrokerInv
    BY FamilyInit DEF Init, BrokerInv
  <2> QED BY <2>1, <2>2 DEF IdsInv, IdsFit, Stamped
<1>2. IdsInv /\ [AdapterNext]_vars => IdsInv'
  BY IdsNext
<1>3. IdsInv => IdsAcceptedOnce
  BY DEF IdsInv, Stamped, IdsAcceptedOnce, Accepted
<1> QED BY <1>1, <1>2, <1>3, PTL DEF AdapterSpec

-----------------------------------------------------------------------------
(* The life of an order.                                                   *)

\* What is true of every order of the ledger: only a stop-limit order has been
\* elected, and only a filled order has a fill, of its quantity at most.
Proper(order) ==
    /\ order.state \in Resting \union {"FILLED", "CANCELLED", "REJECTED"}
    /\ Elected(order) => order.type = "stop_limit"
    /\ order.filled <= order.qty
    /\ order.filled # 0 => order.state = "FILLED"
    /\ order.at >= -1

AllProper(ledger) == \A j \in DOMAIN ledger : Proper(ledger[j])

Follows(old, new) == new.state = old.state \/ new.state \in StateMachine[old.state]

Ratchets(old, new) ==
    old.anchor # 0 => IF Sells(old) THEN new.anchor >= old.anchor ELSE new.anchor <= old.anchor

\* One step in the life of an order.
LivesOn(old, new) ==
    /\ IsTerminal(old) => new = old
    /\ Follows(old, new) /\ Ratchets(old, new)

\* One step in the life of a ledger.
Proceeds(old, new) ==
    /\ DOMAIN old \subseteq DOMAIN new
    /\ \A j \in DOMAIN old : LivesOn(old[j], new[j])
    /\ AllProper(new)

LEMMA TableFacts ==
    /\ \A s \in Resting : {"FILLED", "CANCELLED"} \subseteq StateMachine[s]
    /\ {"TRIGGERED", "WORKING"} \subseteq StateMachine["SUBMITTED"]
    /\ "WORKING" \in StateMachine["TRIGGERED"]
<1>1. /\ StateMachine["SUBMITTED"] = {"TRIGGERED", "WORKING", "FILLED", "CANCELLED", "REJECTED", "EXPIRED"}
      /\ StateMachine["TRIGGERED"] = {"WORKING", "FILLED", "CANCELLED", "EXPIRED"}
      /\ StateMachine["WORKING"] = {"FILLED", "CANCELLED", "EXPIRED"}
  BY DEF StateMachine, OrderStates
<1> QED BY <1>1 DEF Resting

\* What the evaluator decides for a live order, the way the table has it.
LEMMA TriggerLife ==
    ASSUME NEW order \in Order, NEW bar \in Bar, Proper(order), ~IsTerminal(order)
    PROVE  \/ EvaluateTrigger(order, bar).fill = TRUE /\ EvaluateTrigger(order, bar).state = "FILLED"
           \/ /\ EvaluateTrigger(order, bar).fill = FALSE /\ EvaluateTrigger(order, bar).state \in Resting
              /\ EvaluateTrigger(order, bar).state # "SUBMITTED" => order.type = "stop_limit"
              /\ Elected(order) => EvaluateTrigger(order, bar).state = "WORKING"
<1> DEFINE Good(d) ==
              \/ d.fill = TRUE /\ d.state = "FILLED"
              \/ /\ d.fill = FALSE /\ d.state \in Resting
                 /\ d.state # "SUBMITTED" => order.type = "stop_limit"
                 /\ Elected(order) => d.state = "WORKING"
<1>1. /\ \A p : Good(Elect(p))
      /\ ~Elected(order) => Good(Rest("SUBMITTED"))
      /\ order.type = "stop_limit" /\ ~Elected(order) => Good(Rest("TRIGGERED"))
      /\ order.type = "stop_limit" /\ Elected(order) => Good(Rest("WORKING"))
  BY DEF Elect, Rest, Resting
<1>2. Elected(order) => order.type = "stop_limit"
  BY DEF Proper
<1>3. order.type \in OrderKinds
  BY DEF Order
<1> HIDE DEF Good
<1> DEFINE level == IF order.type = "trailing_stop"
                    THEN TrailingLevel(order, RatchetTrailing(order, bar)) ELSE order.stop
<1>4. Good(EvaluateTrigger(order, bar))
  <2>1. CASE order.type = "market"
    BY <1>1, <2>1 DEF EvaluateTrigger
  <2>2. CASE order.type = "limit"
    BY <1>1, <1>2, <2>2 DEF EvaluateTrigger
  <2>3. CASE order.type \in {"stop", "trailing_stop"}
    BY <1>1, <1>2, <2>3 DEF EvaluateTrigger
  <2>4. CASE order.type = "stop_limit"
    <3>1. EvaluateTrigger(order, bar) =
            CASE ~Elected(order) /\ ~LevelCrossed(order, level, bar) -> Rest("SUBMITTED")
              [] (Elected(order) \/ LevelCrossed(order, level, bar))
                    /\ LimitCrossed(order, bar) -> Elect(order.limit)
              [] Elected(order) /\ ~LimitCrossed(order, bar) -> Rest("WORKING")
              [] OTHER -> Rest("TRIGGERED")
      BY <2>4 DEF EvaluateTrigger
    <3> HIDE DEF level
    <3>2. CASE ~Elected(order)
      BY <1>1, <2>4, <3>1, <3>2
    <3>3. CASE Elected(order)
      BY <1>1, <2>4, <3>1, <3>3
    <3> QED BY <3>2, <3>3
  <2> QED BY <1>3, <2>1, <2>2, <2>3, <2>4 DEF OrderKinds
<1> QED BY <1>4 DEF Good

\* So the state it decides is the present one or one the table admits.
LEMMA DecisionFollows ==
    ASSUME NEW order \in Order, NEW bar \in Bar, Proper(order), ~IsTerminal(order)
    PROVE  \/ EvaluateTrigger(order, bar).state = order.state
           \/ EvaluateTrigger(order, bar).state \in StateMachine[order.state]
<1>1. order.state \in Resting
  BY DEF Proper, IsTerminal, TerminalStates
<1> QED BY <1>1, TriggerLife, TableFacts DEF Resting, Elected

LEMMA RatchetFacts ==
    ASSUME NEW order \in Order, NEW bar \in Bar, order.anchor # 0
    PROVE  /\ Sells(order) => RatchetTrailing(order, bar) >= order.anchor
           /\ ~Sells(order) => RatchetTrailing(order, bar) <= order.anchor
<1>1. bar.high \in Nat /\ bar.low \in Nat /\ order.anchor \in Nat
  BY PaperBrokerConstants DEF Bar, Order
<1> QED BY <1>1 DEF RatchetTrailing

\* Cancelling the siblings of a leg and its twin leaves every other order alone or cancels it.
LEMMA CancelEach ==
    ASSUME NEW ledger \in Seq(Order), NEW leg
    PROVE  LET new == CancelBracketTwin(CancelOcoSiblings(ledger, leg), leg)
           IN  /\ DOMAIN new = DOMAIN ledger
               /\ \A j \in DOMAIN ledger :
                     \/ new[j] = ledger[j]
                     \/ ~IsTerminal(ledger[j]) /\ new[j] = [ledger[j] EXCEPT !.state = "CANCELLED"]
<1> DEFINE once == CancelOcoSiblings(ledger, leg)
           new == CancelBracketTwin(once, leg)
<1>1. /\ DOMAIN once = DOMAIN ledger
      /\ \A j \in DOMAIN ledger :
            once[j] = IF leg.group # 0 /\ ledger[j].group = leg.group /\ ~IsTerminal(ledger[j])
                      THEN [ledger[j] EXCEPT !.state = "CANCELLED"] ELSE ledger[j]
  BY DEF CancelOcoSiblings, Cancel
<1>2. /\ DOMAIN new = DOMAIN ledger
      /\ \A j \in DOMAIN ledger :
            new[j] = IF leg.parent # 0 /\ once[j].parent = leg.parent /\ ~IsTerminal(once[j])
                     THEN [once[j] EXCEPT !.state = "CANCELLED"] ELSE once[j]
  <2> HIDE DEF once
  <2> QED BY <1>1 DEF CancelBracketTwin, Cancel
<1> HIDE DEF once, new
<1>3. ASSUME NEW j \in DOMAIN ledger
      PROVE  \/ new[j] = ledger[j]
             \/ ~IsTerminal(ledger[j]) /\ new[j] = [ledger[j] EXCEPT !.state = "CANCELLED"]
  <2>1. ledger[j] \in Order
    OBVIOUS
  <2>2. [ledger[j] EXCEPT !.state = "CANCELLED"].state = "CANCELLED"
    BY <2>1 DEF Order
  <2> QED BY <1>1, <1>2, <2>2 DEF IsTerminal, TerminalStates
<1> QED BY <1>2, <1>3 DEF new, once

LEMMA CancelledLives ==
    ASSUME NEW order \in Order, Proper(order), ~IsTerminal(order)
    PROVE  /\ LivesOn(order, [order EXCEPT !.state = "CANCELLED"])
           /\ Proper([order EXCEPT !.state = "CANCELLED"])
<1> DEFINE new == [order EXCEPT !.state = "CANCELLED"]
<1>1. /\ new.state = "CANCELLED" /\ new.anchor = order.anchor /\ new.filled = order.filled
      /\ new.qty = order.qty /\ new.at = order.at
      /\ order.anchor \in Nat
  BY DEF Order
<1> HIDE DEF new
<1>2. order.state \in Resting
  BY DEF Proper, IsTerminal, TerminalStates
<1>3. LivesOn(order, new)
  BY <1>1, <1>2, TableFacts DEF LivesOn, Follows, Ratchets
<1>4. Proper(new)
  BY <1>1, <1>2 DEF Proper, Elected, Resting
<1> QED BY <1>3, <1>4 DEF new

LEMMA SameLives ==
    ASSUME NEW order \in Order
    PROVE  LivesOn(order, order)
<1>1. order.anchor \in Nat
  BY DEF Order
<1> QED BY <1>1 DEF LivesOn, Follows, Ratchets

\* Evaluating a live order is one step in the life of the ledger.
LEMMA EvaluateProceeds ==
    ASSUME NEW ledger \in Seq(Order), AllProper(ledger), NEW i \in DOMAIN ledger,
           ~IsTerminal(ledger[i]), NEW bar \in Bar, NEW rest,
           EvaluateOrderFill(ledger, i, bar, rest)
    PROVE  Proceeds(ledger, orders')
<1> DEFINE order == ledger[i]
           decision == EvaluateTrigger(order, bar)
           anchor == IF order.type = "trailing_stop" THEN RatchetTrailing(order, bar) ELSE order.anchor
           ratcheted == [ledger EXCEPT ![i].anchor = anchor]
<1>1. order \in Order /\ DOMAIN ledger = 1..Len(ledger) /\ \A j \in DOMAIN ledger : ledger[j] \in Order
  OBVIOUS
<1>2. Proper(order) /\ \A j \in DOMAIN ledger : Proper(ledger[j])
  BY DEF AllProper
<1>3. anchor \in Nat
  BY <1>1, TriggerFacts DEF Order
<1>4. order.anchor # 0 => IF Sells(order) THEN anchor >= order.anchor ELSE anchor <= order.anchor
  <2>1. order.anchor \in Nat
    BY <1>1 DEF Order
  <2> QED BY <1>1, <2>1, RatchetFacts
<1>5. /\ decision.state = order.state \/ decision.state \in StateMachine[order.state]
      /\ \/ decision.fill = TRUE /\ decision.state = "FILLED"
         \/ /\ decision.fill = FALSE /\ decision.state \in Resting
            /\ decision.state # "SUBMITTED" => order.type = "stop_limit"
  BY <1>1, <1>2, TriggerLife, DecisionFollows
<1>6. /\ decision.fill => FillOrder(ratcheted, i, decision.price, rest)
      /\ ~decision.fill => orders' = [ratcheted EXCEPT ![i].state = decision.state]
  BY DEF EvaluateOrderFill
<1> HIDE DEF anchor
<1>7. /\ DOMAIN ratcheted = DOMAIN ledger
      /\ \A j \in DOMAIN ledger : j # i => ratcheted[j] = ledger[j]
      /\ ratcheted[i] = [order EXCEPT !.anchor = anchor]
  OBVIOUS
<1>8. /\ ratcheted[i] \in Order /\ ratcheted[i].anchor = anchor /\ ratcheted[i].side = order.side
      /\ ratcheted[i].qty = order.qty /\ ratcheted[i].filled = order.filled /\ ratcheted[i].at = order.at
      /\ ratcheted[i].type = order.type /\ ratcheted[i].state = order.state
  BY <1>1, <1>3, <1>7 DEF Order
<1>9. ratcheted \in Seq(Order)
  BY <1>1, <1>7, <1>8
<1> HIDE DEF ratcheted
<1>10. order.state \in Resting /\ order.filled = 0 /\ order.qty \in Nat \ {0} /\ order.at \in Int /\ order.at >= -1
  BY <1>1, <1>2 DEF Proper, IsTerminal, TerminalStates, Resting, Order
<1>11. \A j \in DOMAIN ledger : LivesOn(ledger[j], ledger[j])
  BY <1>1, SameLives
<1> HIDE DEF decision
<1>12. CASE decision.fill = TRUE /\ decision.state = "FILLED"
  <2>1. PICK qty \in FillQuantities(ratcheted[i]) :
            orders' = CancelBracketTwin(CancelOcoSiblings(
                        [ratcheted EXCEPT ![i].state = "FILLED", ![i].filled = qty,
                                          ![i].beside = Len(ratcheted)], ratcheted[i]), ratcheted[i])
    BY <1>6, <1>12 DEF FillOrder
  <2> DEFINE filled == [ratcheted EXCEPT ![i].state = "FILLED", ![i].filled = qty,
                                         ![i].beside = Len(ratcheted)]
  <2>0. Len(ratcheted) \in Nat
    BY <1>1, <1>7
  <2>2. qty \in Nat \ {0} /\ qty <= order.qty
    <3>1. qty \in 1..ratcheted[i].qty \/ qty = ratcheted[i].qty
      BY <2>1, PaperBrokerConstants DEF FillQuantities
    <3> QED BY <1>8, <1>10, <3>1
  <2>3. /\ DOMAIN filled = DOMAIN ledger
        /\ \A j \in DOMAIN ledger : j # i => filled[j] = ledger[j]
        /\ filled[i] = [ratcheted[i] EXCEPT !.state = "FILLED", !.filled = qty, !.beside = Len(ratcheted)]
    BY <1>7
  <2>a. orders' = CancelBracketTwin(CancelOcoSiblings(filled, ratcheted[i]), ratcheted[i])
    BY <2>1
  <2> HIDE DEF filled
  <2>4. /\ filled[i] \in Order /\ filled[i].state = "FILLED" /\ filled[i].filled = qty
        /\ filled[i].anchor = anchor /\ filled[i].qty = order.qty /\ filled[i].at = order.at
    BY <1>8, <2>0, <2>2, <2>3 DEF Order, OrderStates
  <2>5. filled \in Seq(Order)
    <3>1. filled = [j \in 1..Len(ledger) |-> filled[j]]
      BY <1>1, <1>7 DEF filled
    <3>2. Len(ledger) \in Nat /\ \A j \in 1..Len(ledger) : filled[j] \in Order
      BY <1>1, <2>3, <2>4
    <3> QED BY <3>1, <3>2
  <2>6. /\ DOMAIN orders' = DOMAIN ledger
        /\ \A j \in DOMAIN ledger :
              \/ orders'[j] = filled[j]
              \/ ~IsTerminal(filled[j]) /\ orders'[j] = [filled[j] EXCEPT !.state = "CANCELLED"]
    BY <2>a, <2>3, <2>5, CancelEach
  <2>7. orders'[i] = filled[i]
    BY <2>4, <2>6 DEF IsTerminal, TerminalStates
  <2>8. LivesOn(ledger[i], orders'[i]) /\ Proper(orders'[i])
    <3>1. LivesOn(order, filled[i])
      BY <1>4, <1>10, <2>4, TableFacts DEF LivesOn, Follows, Ratchets
    <3>2. Proper(filled[i])
      BY <1>10, <2>2, <2>4 DEF Proper, Elected
    <3> QED BY <2>7, <3>1, <3>2
  <2>9. ASSUME NEW j \in DOMAIN ledger, j # i
        PROVE  LivesOn(ledger[j], orders'[j]) /\ Proper(orders'[j])
    <3>1. CASE orders'[j] = ledger[j]
      BY <1>2, <1>11, <3>1
    <3>2. CASE ~IsTerminal(ledger[j]) /\ orders'[j] = [ledger[j] EXCEPT !.state = "CANCELLED"]
      BY <1>1, <1>2, <3>2, CancelledLives
    <3> QED BY <2>3, <2>6, <2>9, <3>1, <3>2
  <2> QED BY <2>6, <2>8, <2>9 DEF Proceeds, AllProper
<1>13. CASE /\ decision.fill = FALSE /\ decision.state \in Resting
            /\ decision.state # "SUBMITTED" => order.type = "stop_limit"
  <2>1. orders' = [ratcheted EXCEPT ![i].state = decision.state]
    BY <1>6, <1>13
  <2>2. /\ DOMAIN orders' = DOMAIN ledger
        /\ \A j \in DOMAIN ledger : j # i => orders'[j] = ledger[j]
        /\ orders'[i] = [ratcheted[i] EXCEPT !.state = decision.state]
    BY <1>7, <2>1
  <2>3. /\ orders'[i].state = decision.state /\ orders'[i].anchor = anchor /\ orders'[i].filled = order.filled
        /\ orders'[i].qty = order.qty /\ orders'[i].at = order.at /\ orders'[i].type = order.type
    BY <1>8, <2>2 DEF Order
  <2>4. LivesOn(order, orders'[i])
    BY <1>4, <1>5, <2>3 DEF LivesOn, Follows, Ratchets
  <2>5. Proper(orders'[i])
    BY <1>10, <1>13, <2>3 DEF Proper, Elected, Resting
  <2> QED BY <1>2, <1>11, <2>2, <2>4, <2>5 DEF Proceeds, AllProper
<1> QED BY <1>5, <1>12, <1>13

\* A refused or accepted submission is one step in the life of the ledger.
LEMMA SubmitProceeds ==
    ASSUME Types, AllProper(orders), NEW req \in Req, NEW rest, Submit(req, rest)
    PROVE  Proceeds(orders, orders')
<1> DEFINE rejected == NewOrder(req, 0, 0, "REJECTED", -1)
           new == NewOrder(req, req.parent, req.group, "SUBMITTED", now)
<1>1. rejected \in Order /\ Proper(rejected)
  <2>1. rejected \in Order
    BY NewOrderFacts DEF OrderStates, Becomes
  <2>2. rejected.state = "REJECTED" /\ rejected.filled = 0 /\ rejected.qty \in Nat /\ rejected.at = -1
    BY DEF NewOrder, Req
  <2> HIDE DEF rejected
  <2> QED BY <2>1, <2>2 DEF Proper, Elected
<1>2. new \in Order /\ Proper(new) /\ ~IsTerminal(new)
  <2>1. req.parent \in Nat /\ req.group \in Nat /\ now \in Nat /\ req.qty \in Nat
    BY DEF Req, Types
  <2>2. new \in Order
    <3>1. now \in Int /\ "SUBMITTED" \in OrderStates
      BY <2>1 DEF OrderStates
    <3> QED BY <2>1, <3>1, NewOrderFacts DEF Becomes
  <2>3. new.state = "SUBMITTED" /\ new.filled = 0 /\ new.qty \in Nat /\ new.at = now
    BY <2>1 DEF NewOrder
  <2> HIDE DEF new
  <2> QED BY <2>1, <2>2, <2>3 DEF Proper, Elected, Resting, IsTerminal, TerminalStates
<1>3. IdempotencyRefuses(req) => orders' = Append(orders, rejected)
  BY DEF Submit, Reject
<1>4. ~IdempotencyRefuses(req) =>
          EvaluateOrderFill(Append(orders, new), Len(Append(orders, new)), FlatBar(req.price), rest)
  BY DEF Submit
<1> HIDE DEF rejected, new
<1>5. ASSUME NEW o \in Order, Proper(o)
      PROVE  Proceeds(orders, Append(orders, o))
  <2>1. \A j \in DOMAIN orders : LivesOn(orders[j], Append(orders, o)[j])
    BY AppendFacts, SameLives
  <2>2. AllProper(Append(orders, o))
    BY <1>5, AppendFacts DEF AllProper
  <2> QED BY <2>1, <2>2, AppendFacts DEF Proceeds
<1>6. CASE IdempotencyRefuses(req)
  BY <1>1, <1>3, <1>5, <1>6
<1>7. CASE ~IdempotencyRefuses(req)
  <2> DEFINE ledger == Append(orders, new)
             k == Len(orders) + 1
  <2>1. /\ ledger \in Seq(Order) /\ k \in DOMAIN ledger /\ ledger[k] = new /\ Len(ledger) = k
        /\ \A j \in DOMAIN orders : ledger[j] = orders[j]
    BY <1>2, AppendFacts
  <2>2. AllProper(ledger) /\ DOMAIN orders \subseteq DOMAIN ledger
    BY <1>2, <1>5 DEF Proceeds
  <2>3. FlatBar(req.price) \in Bar
    BY DEF FlatBar, Bar, Req
  <2>4. EvaluateOrderFill(ledger, k, FlatBar(req.price), rest)
    BY <1>4, <1>7, <2>1
  <2> HIDE DEF ledger, k
  <2>5. Proceeds(ledger, orders')
    BY <1>2, <2>1, <2>2, <2>3, <2>4, EvaluateProceeds
  <2> QED BY <2>1, <2>2, <2>5 DEF Proceeds
<1> QED BY <1>6, <1>7

LEMMA AmendedLives ==
    ASSUME NEW order \in Order, Proper(order), ~IsTerminal(order), NEW a \in Amendments
    PROVE  LivesOn(order, Amended(order, a)) /\ Proper(Amended(order, a))
<1> DEFINE new == Amended(order, a)
<1>1. a.qty \in Nat /\ order.qty \in Nat /\ order.anchor \in Nat
  BY AmendmentsAssumption DEF Order
<1>2. /\ new.state = order.state /\ new.type = order.type /\ new.anchor = order.anchor
      /\ new.filled = order.filled /\ new.at = order.at /\ new.qty \in Nat
  BY <1>1 DEF Amended, Order
<1> HIDE DEF new
<1>3. order.filled = 0
  BY DEF Proper, IsTerminal, TerminalStates
<1>4. LivesOn(order, new)
  BY <1>1, <1>2 DEF LivesOn, Follows, Ratchets
<1>5. Proper(new)
  BY <1>1, <1>2, <1>3 DEF Proper, Elected
<1> QED BY <1>4, <1>5 DEF new

\* So is a cancellation, an amendment and the kill switch.
LEMMA AdapterProceeds ==
    ASSUME Types, AllProper(orders),
           \/ EngageKillSwitch
           \/ \E id \in KnownIds : CancelOrder(id) \/ \E a \in Amendments : ReplaceOrder(id, a)
    PROVE  Proceeds(orders, orders')
<1>1. /\ orders \in Seq(Order) /\ DOMAIN orders = 1..Len(orders)
      /\ \A j \in DOMAIN orders : orders[j] \in Order /\ Proper(orders[j]) /\ LivesOn(orders[j], orders[j])
  BY SameLives DEF Types, AllProper
<1>2. ASSUME NEW j \in DOMAIN orders
      PROVE  LivesOn(orders[j], Cancelled(orders[j])) /\ Proper(Cancelled(orders[j]))
  <2>1. CASE IsTerminal(orders[j])
    BY <1>1, <2>1 DEF Cancelled
  <2>2. CASE ~IsTerminal(orders[j])
    <3>1. Cancelled(orders[j]) = [orders[j] EXCEPT !.state = "CANCELLED"]
      BY <2>2 DEF Cancelled
    <3> QED BY <1>1, <2>2, <3>1, CancelledLives
  <2> QED BY <2>1, <2>2
<1>3. ASSUME NEW i \in DOMAIN orders, NEW o, orders' = [orders EXCEPT ![i] = o], LivesOn(orders[i], o), Proper(o)
      PROVE  Proceeds(orders, orders')
  <2>1. /\ DOMAIN orders' = DOMAIN orders /\ orders'[i] = o
        /\ \A j \in DOMAIN orders : j # i => orders'[j] = orders[j]
    BY <1>3
  <2> QED BY <1>1, <1>3, <2>1 DEF Proceeds, AllProper
<1>4. ASSUME NEW id \in KnownIds, CancelOrder(id) PROVE Proceeds(orders, orders')
  <2> DEFINE i == FirstWith(id)
  <2>1. i \in DOMAIN orders
    BY FirstWithFacts
  <2>2. orders' = [orders EXCEPT ![i] = Cancelled(orders[i])]
    BY <1>4 DEF CancelOrder
  <2> HIDE DEF i
  <2>3. LivesOn(orders[i], Cancelled(orders[i])) /\ Proper(Cancelled(orders[i]))
    BY <1>2, <2>1
  <2> DEFINE o == Cancelled(orders[i])
  <2>4. orders' = [orders EXCEPT ![i] = o] /\ LivesOn(orders[i], o) /\ Proper(o)
    BY <2>2, <2>3
  <2> HIDE DEF o
  <2> QED BY <1>3, <2>1, <2>4
<1>5. ASSUME NEW id \in KnownIds, NEW a \in Amendments, ReplaceOrder(id, a) PROVE Proceeds(orders, orders')
  <2> DEFINE i == FirstWith(id)
             o == Amended(orders[i], a)
  <2>1. i \in DOMAIN orders
    BY FirstWithFacts
  <2>2. orders' = [orders EXCEPT ![i] = o] /\ ~IsTerminal(orders[i])
    BY <1>5 DEF ReplaceOrder
  <2> HIDE DEF i
  <2>3. LivesOn(orders[i], o) /\ Proper(o)
    BY <1>1, <2>1, <2>2, AmendedLives
  <2> HIDE DEF o
  <2> QED BY <1>3, <2>1, <2>2, <2>3
<1>6. ASSUME EngageKillSwitch PROVE Proceeds(orders, orders')
  <2>1. orders' = [j \in DOMAIN orders |-> Cancelled(orders[j])]
    BY <1>6 DEF EngageKillSwitch
  <2> QED BY <1>2, <2>1 DEF Proceeds, AllProper
<1> QED BY <1>4, <1>5, <1>6

LEMMA LifeNext ==
    ASSUME BrokerInv, AllProper(orders), [AdapterNext]_vars
    PROVE  Proceeds(orders, orders')
<1>1. Types /\ FamilyInv
  BY DEF BrokerInv, FamilyInv
<1>2. ASSUME UNCHANGED orders PROVE Proceeds(orders, orders')
  <2>1. \A j \in DOMAIN orders : orders[j] \in Order
    BY <1>1 DEF Types
  <2> QED BY <1>2, <2>1, SameLives DEF Proceeds
<1>3. ASSUME Transmit \/ ProtectiveSubmit PROVE Proceeds(orders, orders')
  <2>1. /\ call # <<>> /\ Head(call).task \in {"send", "protect"}
        /\ Submit(Head(call).req, Tail(call))
    BY <1>3 DEF Transmit, ProtectiveSubmit, Upcoming
  <2>2. Head(call).req \in Req
    BY <1>1, <2>1, HeadFacts
  <2> QED BY <1>1, <2>1, <2>2, SubmitProceeds
<1>4. ASSUME LookAt PROVE Proceeds(orders, orders')
  <2> DEFINE i == Head(call).order
  <2>1. call # <<>> /\ Head(call).task = "look"
    BY <1>4 DEF LookAt, Upcoming
  <2>2. Head(call).bar \in Bar /\ Head(call) = call[1] /\ 1 \in DOMAIN call
    BY <1>1, <2>1, HeadFacts
  <2>3. i \in DOMAIN orders
    BY <1>1, <2>1, <2>2 DEF FamilyInv, CallFits, TaskFits
  <2>4. CASE IsTerminal(orders[i])
    BY <1>2, <1>4, <2>4 DEF LookAt
  <2>5. CASE ~IsTerminal(orders[i])
    <3>1. EvaluateOrderFill(orders, i, Head(call).bar, Tail(call))
      BY <1>4, <2>5 DEF LookAt
    <3>2. orders \in Seq(Order)
      BY <1>1 DEF Types
    <3> QED BY <2>2, <2>3, <2>5, <3>1, <3>2, EvaluateProceeds
  <2> QED BY <2>4, <2>5
<1>5. ASSUME PlaceOrder \/ PlaceOco \/ PlaceBracket \/ MarkPrice PROVE UNCHANGED orders
  BY <1>1, <1>5, BeginFacts
<1>6. ASSUME Tick \/ Refuse \/ FollowEntry \/ UNCHANGED vars PROVE UNCHANGED orders
  BY <1>6 DEF Tick, Refuse, FollowEntry, vars
<1> QED BY <1>1, <1>2, <1>3, <1>4, <1>5, <1>6, AdapterProceeds DEF AdapterNext, Next

LifeInv == BrokerInv /\ AllProper(orders)

LEMMA LifeAlways == AdapterSpec => []LifeInv
<1>1. Init => LifeInv
  <2>1. Init => BrokerInv /\ orders = <<>>
    BY FamilyInit DEF Init, BrokerInv
  <2> QED BY <2>1 DEF LifeInv, AllProper
<1>2. LifeInv /\ [AdapterNext]_vars => LifeInv'
  <2> SUFFICES ASSUME LifeInv, [AdapterNext]_vars PROVE LifeInv'
    OBVIOUS
  <2>1. BrokerInv'
    BY FamilyNext, PositionStep DEF LifeInv, BrokerInv
  <2>2. AllProper(orders')
    BY LifeNext DEF LifeInv, Proceeds
  <2> QED BY <2>1, <2>2 DEF LifeInv, AllProper
<1> QED BY <1>1, <1>2, PTL DEF AdapterSpec

\* THEOREM.  No mark of any live order, at any prices, makes the evaluator decide a state
\* the transition table refuses.
THEOREM EvaluatorAlwaysObeysTable == AdapterSpec => []EvaluatorObeysTable
<1>1. LifeInv => EvaluatorObeysTable
  <2> SUFFICES ASSUME LifeInv, NEW i \in DOMAIN orders, Live(i),
                      NEW bar \in [high : Prices, low : Prices, close : Prices]
               PROVE  \/ EvaluateTrigger(orders[i], bar).state = orders[i].state
                      \/ EvaluateTrigger(orders[i], bar).state \in StateMachine[orders[i].state]
    BY DEF EvaluatorObeysTable
  <2>1. orders[i] \in Order /\ Proper(orders[i]) /\ ~IsTerminal(orders[i]) /\ bar \in Bar
    BY DEF LifeInv, AllProper, BrokerInv, FamilyInv, Types, Live, Bar
  <2> QED BY <2>1, DecisionFollows
<1> QED BY <1>1, LifeAlways, PTL

\* THEOREM.  No step drops an order or alters a terminal one, moves a state against the
\* transition table or an anchor against its ratchet.
THEOREM LedgerAlwaysGrows == AdapterSpec => LedgerOnlyGrows
<1> DEFINE Step == \A i \in DOMAIN orders :
        /\ i \in DOMAIN orders'
        /\ ~Live(i) => orders'[i] = orders[i]
        /\ orders'[i].state = orders[i].state \/ orders'[i].state \in StateMachine[orders[i].state]
        /\ orders[i].anchor # 0 =>
            IF Sells(orders[i]) THEN orders'[i].anchor >= orders[i].anchor
                                ELSE orders'[i].anchor <= orders[i].anchor
<1>1. LifeInv /\ [AdapterNext]_vars => [Step]_vars
  BY LifeNext DEF LifeInv, Proceeds, LivesOn, Follows, Ratchets, Live
<1> QED BY <1>1, LifeAlways, PTL DEF AdapterSpec, LedgerOnlyGrows

-----------------------------------------------------------------------------
(* The rate cap.                                                           *)

\* What one turn of the pruning keeps.
Keep(kept, t) == IF now - t < RateWindow THEN Append(kept, t) ELSE kept

\* The pruning, stamp by stamp.
LEMMA PrunedTurns ==
    ASSUME recent \in Seq(Nat), now \in Nat
    PROVE  \E A : /\ A \in [0..Len(recent) -> Seq(Nat)] /\ A[0] = <<>>
                  /\ \A k \in 1..Len(recent) : A[k] = Keep(A[k - 1], recent[k])
                  /\ A[Len(recent)] = Pruned
<1> DEFINE n == Len(recent)
           V == Seq(Nat)
           F == [k \in 1..n |-> [v \in V |-> Keep(v, recent[k])]]
           Rec(h) == h = [t \in SUBSET DOMAIN recent |->
              IF t = {} THEN <<>> ELSE Keep(h[t \ {Max(t)}], recent[Max(t)])]
<1>1. Pruned = (CHOOSE h : Rec(h))[DOMAIN recent]
  BY DEF Pruned, FoldLeft, MapThenFoldSet, Keep
<1>2. DOMAIN recent = 1..n /\ n \in Nat /\ \A k \in 1..n : recent[k] \in Nat
  OBVIOUS
<1>a. \A v \in V, t \in Nat : Keep(v, t) \in V
  BY DEF Keep
<1>b. <<>> \in V
  OBVIOUS
<1> HIDE DEF V
<1>3. Steps(F, n, V)
  BY <1>2, <1>a DEF Steps
<1>4. ASSUME NEW t \in SUBSET (1..n), t # {} PROVE Max(t) \in 1..n /\ t \ {Max(t)} \in SUBSET (1..n)
  <2>1. t \in SUBSET Nat /\ \A x \in t : x <= n
    BY <1>2
  <2> QED BY <1>2, <1>4, <2>1, MaxOfBounded
<1>5. ASSUME NEW t \in SUBSET (1..n), t # {}, NEW h, h[t \ {Max(t)}] \in V
      PROVE  F[Max(t)][h[t \ {Max(t)}]] = Keep(h[t \ {Max(t)}], recent[Max(t)])
  BY <1>4, <1>5
<1>6. PICK g : FoldsTo(g, n, V, <<>>, F)
  <2> HIDE DEF F, n
  <2> QED BY <1>2, <1>3, <1>b, FoldExists
<1>7. Rec(g)
  <2>1. ASSUME NEW t \in SUBSET (1..n), t # {}
        PROVE  g[t] = Keep(g[t \ {Max(t)}], recent[Max(t)])
    <3>1. g[t \ {Max(t)}] \in V
      BY <1>4, <1>6, <2>1 DEF FoldsTo
    <3>2. g[t] = F[Max(t)][g[t \ {Max(t)}]]
      <4> HIDE DEF F
      <4> QED BY <1>6, <2>1 DEF FoldsTo
    <3> QED BY <1>5, <2>1, <3>1, <3>2
  <2>2. g[{}] = <<>> /\ g = [t \in SUBSET (1..n) |-> g[t]]
    <3> HIDE DEF F
    <3> QED BY <1>6 DEF FoldsTo
  <2> HIDE DEF F, n
  <2> QED BY <1>2, <2>1, <2>2
<1> DEFINE h == CHOOSE h : Rec(h)
<1>8. Rec(h)
  <2> HIDE DEF Rec
  <2> QED BY <1>7
<1> HIDE DEF h
<1>9. FoldsThrough(h, n, V, <<>>, F)
  <2>1. h[{}] = <<>>
    BY <1>2, <1>8
  <2>2. ASSUME NEW t \in SUBSET (1..n), t # {}, h[t \ {Max(t)}] \in V
        PROVE  h[t] = F[Max(t)][h[t \ {Max(t)}]]
    <3>1. h[t] = Keep(h[t \ {Max(t)}], recent[Max(t)])
      BY <1>2, <1>8, <2>2
    <3>2. F[Max(t)][h[t \ {Max(t)}]] = Keep(h[t \ {Max(t)}], recent[Max(t)])
      BY <1>5, <2>2
    <3> HIDE DEF Rec, F
    <3> QED BY <3>1, <3>2
  <2> HIDE DEF Rec, F, n
  <2> QED BY <2>1, <2>2 DEF FoldsThrough
<1>10. PICK A : Totals(A, n, V, <<>>, F) /\ A[n] = h[1..n]
  <2> HIDE DEF Rec, F, n
  <2> QED BY <1>2, <1>3, <1>9, <1>b, FoldTotals
<1>11. A[n] = Pruned
  BY <1>1, <1>2, <1>10 DEF h
<1>12. A \in [0..n -> V] /\ A[0] = <<>>
  BY <1>10 DEF Totals
<1>13. ASSUME NEW k \in 1..n PROVE A[k] = Keep(A[k - 1], recent[k])
  <2>1. A[k] = F[k][A[k - 1]]
    <3> HIDE DEF F
    <3> QED BY <1>10 DEF Totals
  <2>2. A[k - 1] \in V
    BY <1>2, <1>12
  <2> QED BY <2>1, <2>2
<1> QED BY <1>11, <1>12, <1>13 DEF V

\* How many stamps of a list are at c or later.
Since(s, c) == Cardinality({m \in DOMAIN s : s[m] >= c})

LEMMA SinceFacts ==
    ASSUME NEW s \in Seq(Nat), NEW c \in Int
    PROVE  /\ Since(s, c) \in Nat /\ Since(s, c) <= Len(s)
           /\ \A v \in Nat : Since(Append(s, v), c) = Since(s, c) + (IF v >= c THEN 1 ELSE 0)
<1> DEFINE At == {m \in DOMAIN s : s[m] >= c}
<1>1. DOMAIN s = 1..Len(s) /\ Len(s) \in Nat
  OBVIOUS
<1>2. IsFiniteSet(1..Len(s)) /\ Cardinality(1..Len(s)) = Len(s)
  <2> DEFINE l == Len(s)
  <2>1. 1 \in Int /\ l \in Int /\ l \in Nat
    BY <1>1
  <2> HIDE DEF l
  <2>2. IsFiniteSet(1..l) /\ Cardinality(1..l) = l
    BY <2>1, FS_Interval
  <2> QED BY <2>2 DEF l
<1>3. IsFiniteSet(At) /\ Cardinality(At) \in Nat /\ Cardinality(At) <= Len(s)
  BY <1>1, <1>2, FS_Subset, FS_CardinalityType
<1>4. ASSUME NEW v \in Nat
      PROVE  Since(Append(s, v), c) = Since(s, c) + (IF v >= c THEN 1 ELSE 0)
  <2> DEFINE n == Len(s) + 1
             More == {m \in DOMAIN Append(s, v) : Append(s, v)[m] >= c}
  <2>1. /\ DOMAIN Append(s, v) = 1..n /\ n \notin 1..Len(s) /\ Append(s, v)[n] = v
        /\ \A m \in 1..Len(s) : Append(s, v)[m] = s[m]
        /\ 1..n = (1..Len(s)) \union {n}
    BY <1>1
  <2>2. More = IF v >= c THEN At \union {n} ELSE At
    <3> HIDE DEF n
    <3> QED BY <1>1, <2>1
  <2>3. n \notin At
    BY <1>1
  <2>4. Cardinality(At \union {n}) = Cardinality(At) + 1
    BY <1>3, <2>3, FS_AddElement
  <2>5. Since(Append(s, v), c) = Cardinality(More) /\ Since(s, c) = Cardinality(At)
    BY DEF Since
  <2> HIDE DEF More, At, n
  <2>6. Cardinality(More) = Cardinality(At) + (IF v >= c THEN 1 ELSE 0)
    <3>1. CASE v >= c
      BY <1>3, <2>2, <2>4, <3>1
    <3>2. CASE ~(v >= c)
      BY <1>3, <2>2, <3>2
    <3> QED BY <3>1, <3>2
  <2> QED BY <2>5, <2>6
<1> QED BY <1>3, <1>4 DEF Since

\* Pruning loses no stamp of the last minute.
LEMMA PrunedFacts ==
    ASSUME recent \in Seq(Nat), now \in Nat
    PROVE  /\ Pruned \in Seq(Nat)
           /\ \A c \in Int : now - c < RateWindow => Since(recent, c) <= Since(Pruned, c)
<1> DEFINE n == Len(recent)
<1>1. PICK A : /\ A \in [0..n -> Seq(Nat)] /\ A[0] = <<>>
               /\ \A k \in 1..n : A[k] = Keep(A[k - 1], recent[k])
               /\ A[n] = Pruned
  BY PrunedTurns
<1>2. n \in Nat /\ DOMAIN recent = 1..n /\ \A k \in 1..n : recent[k] \in Nat
  OBVIOUS
<1>3. Pruned \in Seq(Nat)
  BY <1>1, <1>2
<1>4. ASSUME NEW c \in Int, now - c < RateWindow PROVE Since(recent, c) <= Since(Pruned, c)
  <2> DEFINE Upto(k) == {m \in 1..k : recent[m] >= c}
             Lost == {k \in 0..n : ~(Cardinality(Upto(k)) <= Since(A[k], c))}
  <2>1. SUFFICES ASSUME Lost # {} PROVE FALSE
    <3>1. n \in 0..n
      BY <1>2
    <3>2. Cardinality(Upto(n)) <= Since(A[n], c)
      BY <2>1, <3>1
    <3> QED BY <1>1, <1>2, <3>2 DEF Since
  <2>2. PICK k \in Lost : \A m \in Lost : k <= m
    <3>1. Lost \in SUBSET Nat
      OBVIOUS
    <3> HIDE DEF Lost
    <3> QED BY <2>1, <3>1, LeastElement
  <2>3. k \in 0..n /\ ~(Cardinality(Upto(k)) <= Since(A[k], c))
    BY <2>2
  <2>4. CASE k = 0
    <3>1. Upto(0) = {}
      OBVIOUS
    <3>2. Cardinality(Upto(0)) = 0
      BY <3>1, FS_EmptySet
    <3>3. Since(A[0], c) \in Nat
      <4>1. A[0] \in Seq(Nat)
        BY <1>1, <1>2
      <4> QED BY <4>1, SinceFacts
    <3> QED BY <2>3, <2>4, <3>2, <3>3
  <2>5. CASE k # 0
    <3> DEFINE j == k - 1
    <3>1. k \in 1..n /\ j \in 0..n /\ ~(k <= j) /\ j \in Nat /\ k = j + 1
      BY <1>2, <2>3, <2>5
    <3>2. Cardinality(Upto(j)) <= Since(A[j], c)
      <4>1. j \notin Lost
        BY ONLY <2>2, <3>1
      <4> QED BY <3>1, <4>1
    <3>3. A[k] = Keep(A[j], recent[k]) /\ A[j] \in Seq(Nat) /\ recent[k] \in Nat
      BY <1>1, <1>2, <3>1
    <3> HIDE DEF j
    <3>4. Upto(k) = IF recent[k] >= c THEN Upto(j) \union {k} ELSE Upto(j)
      BY <3>1
    <3>5. IsFiniteSet(Upto(j)) /\ Cardinality(Upto(j)) \in Nat
      <4>1. IsFiniteSet(1..j) /\ Upto(j) \subseteq 1..j
        BY <3>1, FS_Interval
      <4> QED BY <4>1, FS_Subset, FS_CardinalityType
    <3>6. Cardinality(Upto(j) \union {k}) = Cardinality(Upto(j)) + 1
      <4>1. k \notin Upto(j)
        BY <3>1
      <4> QED BY <3>5, <4>1, FS_AddElement
    <3> DEFINE a == Since(A[j], c)
               u == Cardinality(Upto(j))
    <3>7. a \in Nat /\ \A v \in Nat : Since(Append(A[j], v), c) = a + (IF v >= c THEN 1 ELSE 0)
      BY <3>3, SinceFacts
    <3>8. Cardinality(Upto(k)) = IF recent[k] >= c THEN u + 1 ELSE u
      BY <3>4, <3>6
    <3>9. u \in Nat /\ u <= a
      BY <3>2, <3>5
    <3> HIDE DEF a, u, Upto
    <3>10. CASE now - recent[k] < RateWindow
      <4>1. Since(A[k], c) = a + (IF recent[k] >= c THEN 1 ELSE 0)
        BY <3>3, <3>7, <3>10 DEF Keep
      <4> QED BY <2>3, <3>7, <3>8, <3>9, <4>1
    <3>11. CASE ~(now - recent[k] < RateWindow)
      <4>1. A[k] = A[j]
        BY <3>3, <3>11 DEF Keep
      <4>2. RateWindow \in Nat
        BY PaperBrokerConstants
      <4>3. ~(recent[k] >= c)
        BY <1>4, <3>3, <3>11, <4>2
      <4> QED BY <2>3, <3>8, <3>9, <4>1, <4>3 DEF a
    <3> QED BY <3>10, <3>11
  <2> QED BY <2>4, <2>5
<1> QED BY <1>3, <1>4

\* The orders of a ledger that were accepted at c or later, and those of the minute
\* that begins at a.
Sent(ledger, c) == {j \in DOMAIN ledger : ledger[j].at >= 0 /\ ledger[j].at >= c}

Minute(ledger, a) == {j \in DOMAIN ledger : ledger[j].at >= 0 /\ ledger[j].at - a \in 0..(RateWindow - 1)}

\* Within a minute of the present, the stamps account for every order accepted.
RateFits(ledger, stamps, time) ==
    /\ stamps \in Seq(Nat)
    /\ \A j \in DOMAIN ledger : ledger[j].at <= time
    /\ \A c \in Int : time - c < RateWindow => Cardinality(Sent(ledger, c)) <= Since(stamps, c)
    /\ \A i \in DOMAIN ledger : ledger[i].at >= 0 => Cardinality(Minute(ledger, ledger[i].at)) <= MaxRate

LEMMA MovedKeepsRate ==
    ASSUME NEW old, NEW new, NEW stamps, NEW time, Moved(old, new), RateFits(old, stamps, time)
    PROVE  RateFits(new, stamps, time)
<1>1. DOMAIN new = DOMAIN old /\ \A j \in DOMAIN old : new[j].at = old[j].at
  BY DEF Moved, SameOrder
<1>2. \A c : Sent(new, c) = Sent(old, c) /\ Minute(new, c) = Minute(old, c)
  BY <1>1 DEF Sent, Minute
<1> QED BY <1>1, <1>2 DEF RateFits

LEMMA SentFinite ==
    ASSUME NEW ledger \in Seq(Order), NEW c \in Int
    PROVE  /\ IsFiniteSet(Sent(ledger, c)) /\ Cardinality(Sent(ledger, c)) \in Nat
           /\ Len(ledger) + 1 \notin Sent(ledger, c)
<1>1. DOMAIN ledger = 1..Len(ledger) /\ Len(ledger) \in Nat
  OBVIOUS
<1>2. IsFiniteSet(DOMAIN ledger)
  BY <1>1, FS_Interval
<1>3. Sent(ledger, c) \subseteq DOMAIN ledger
  BY DEF Sent
<1> QED BY <1>1, <1>2, <1>3, FS_Subset, FS_CardinalityType

\* A rejected order counts for nothing.
LEMMA RejectedKeepsRate ==
    ASSUME Types, NEW new \in Order, new.at = -1, NEW stamps, RateFits(orders, stamps, now),
           NEW kept \in Seq(Nat),
           \A c \in Int : now - c < RateWindow => Since(stamps, c) <= Since(kept, c)
    PROVE  RateFits(Append(orders, new), kept, now)
<1> DEFINE ledger == Append(orders, new)
           n == Len(orders) + 1
<1>1. /\ DOMAIN ledger = DOMAIN orders \union {n} /\ n \notin DOMAIN orders /\ ledger[n] = new
      /\ \A j \in DOMAIN orders : ledger[j] = orders[j] /\ orders[j] \in Order
  <2>1. DOMAIN orders = 1..Len(orders) /\ Len(orders) \in Nat /\ DOMAIN ledger = 1..n
    BY AppendFacts
  <2> QED BY <2>1, AppendFacts
<1>2. stamps \in Seq(Nat) /\ orders \in Seq(Order) /\ now \in Nat
  BY DEF RateFits, Types
<1> HIDE DEF ledger, n
<1>3. \A c \in Int : Sent(ledger, c) = Sent(orders, c) /\ Minute(ledger, c) = Minute(orders, c)
  BY <1>1 DEF Sent, Minute
<1>4. ASSUME NEW c \in Int, now - c < RateWindow PROVE Cardinality(Sent(ledger, c)) <= Since(kept, c)
  <2>1. Cardinality(Sent(orders, c)) <= Since(stamps, c) /\ Since(stamps, c) <= Since(kept, c)
    BY <1>4 DEF RateFits
  <2>2. Cardinality(Sent(orders, c)) \in Nat /\ Since(stamps, c) \in Nat /\ Since(kept, c) \in Nat
    BY <1>2, SentFinite, SinceFacts
  <2> QED BY <1>3, <2>1, <2>2
<1>5. ASSUME NEW i \in DOMAIN ledger, ledger[i].at >= 0
      PROVE  Cardinality(Minute(ledger, ledger[i].at)) <= MaxRate
  <2>1. i \in DOMAIN orders /\ ledger[i] = orders[i] /\ orders[i].at \in Int
    BY <1>1, <1>5 DEF Order
  <2>2. Cardinality(Minute(orders, orders[i].at)) <= MaxRate
    BY <1>5, <2>1 DEF RateFits
  <2> QED BY <1>3, <2>1, <2>2
<1>6. \A j \in DOMAIN ledger : ledger[j].at <= now
  BY <1>1, <1>2 DEF RateFits
<1> QED BY <1>4, <1>5, <1>6 DEF RateFits, ledger

\* An accepted one finds room among the stamps that are left.
LEMMA AcceptedKeepsRate ==
    ASSUME Types, NEW new \in Order, new.at = now, NEW stamps, RateFits(orders, stamps, now),
           NEW kept \in Seq(Nat), Len(kept) < MaxRate,
           \A c \in Int : now - c < RateWindow => Since(stamps, c) <= Since(kept, c)
    PROVE  RateFits(Append(orders, new), Append(kept, now), now)
<1> DEFINE ledger == Append(orders, new)
           n == Len(orders) + 1
           more == Append(kept, now)
<1>1. /\ DOMAIN ledger = DOMAIN orders \union {n} /\ n \notin DOMAIN orders /\ ledger[n] = new
      /\ \A j \in DOMAIN orders : ledger[j] = orders[j] /\ orders[j] \in Order
  <2>1. DOMAIN orders = 1..Len(orders) /\ Len(orders) \in Nat /\ DOMAIN ledger = 1..n
    BY AppendFacts
  <2> QED BY <2>1, AppendFacts
<1>2. /\ stamps \in Seq(Nat) /\ orders \in Seq(Order) /\ ledger \in Seq(Order) /\ now \in Nat
      /\ more \in Seq(Nat) /\ Len(kept) \in Nat
  BY AppendFacts DEF RateFits, Types
<1>3. RateWindow \in Nat \ {0} /\ MaxRate \in Nat \ {0}
  BY PaperBrokerConstants
<1>4. ASSUME NEW c \in Int, now - c < RateWindow, c <= now
      PROVE  Cardinality(Sent(ledger, c)) <= Since(more, c) /\ Cardinality(Sent(ledger, c)) <= MaxRate
  <2>1. n \notin Sent(orders, c) /\ IsFiniteSet(Sent(orders, c)) /\ Cardinality(Sent(orders, c)) \in Nat
    BY <1>2, SentFinite
  <2>2. Since(stamps, c) \in Nat /\ Since(kept, c) \in Nat /\ Since(kept, c) <= Len(kept)
    BY <1>2, SinceFacts
  <2>3. Since(more, c) = Since(kept, c) + (IF now >= c THEN 1 ELSE 0)
    BY <1>2, SinceFacts
  <2>4. Cardinality(Sent(orders, c)) <= Since(stamps, c) /\ Since(stamps, c) <= Since(kept, c)
    BY <1>4 DEF RateFits
  <2> HIDE DEF ledger, n, more
  <2>5. Sent(ledger, c) = Sent(orders, c) \union {n}
    BY <1>1, <1>2, <1>4 DEF Sent
  <2>6. Cardinality(Sent(ledger, c)) = Cardinality(Sent(orders, c)) + 1
    BY <2>1, <2>5, FS_AddElement
  <2>7. Since(more, c) = Since(kept, c) + 1
    BY <1>2, <1>4, <2>3
  <2> QED BY <1>2, <1>3, <2>1, <2>2, <2>4, <2>6, <2>7
<1>5. ASSUME NEW c \in Int, now - c < RateWindow PROVE Cardinality(Sent(ledger, c)) <= Since(more, c)
  <2>1. CASE c <= now
    BY <1>4, <1>5, <2>1
  <2>2. CASE ~(c <= now)
    <3>1. \A j \in DOMAIN ledger : ledger[j].at <= now /\ ledger[j].at \in Int
      <4> HIDE DEF ledger, n, more
      <4>1. new.at \in Int /\ new.at <= now
        BY <1>2
      <4>2. \A j \in DOMAIN orders : orders[j].at <= now /\ orders[j].at \in Int
        BY <1>1 DEF RateFits, Order
      <4> QED BY <1>1, <4>1, <4>2
    <3>2. Sent(ledger, c) = {}
      <4> HIDE DEF ledger
      <4> QED BY <1>2, <2>2, <3>1 DEF Sent
    <3>3. Since(more, c) \in Nat
      BY <1>2, SinceFacts
    <3> QED BY <3>2, <3>3, FS_EmptySet
  <2> QED BY <1>2, <2>1, <2>2
<1> HIDE DEF ledger, n, more
<1>6. ASSUME NEW i \in DOMAIN ledger, ledger[i].at >= 0
      PROVE  Cardinality(Minute(ledger, ledger[i].at)) <= MaxRate
  <2> DEFINE a == ledger[i].at
  <2>1. a \in Nat /\ a <= now
    BY <1>1, <1>2, <1>6 DEF RateFits, Order
  <2> HIDE DEF a
  <2>2. CASE now - a < RateWindow
    <3>1. Minute(ledger, a) \subseteq Sent(ledger, a)
      <4>1. \A j \in DOMAIN ledger : ledger[j].at \in Int
        BY <1>1 DEF Order
      <4> QED BY <1>3, <2>1, <4>1 DEF Minute, Sent
    <3>2. IsFiniteSet(Sent(ledger, a)) /\ Cardinality(Sent(ledger, a)) \in Nat
      <4>1. a \in Int
        BY <2>1
      <4> QED BY <1>2, <4>1, SentFinite
    <3>3. Cardinality(Minute(ledger, a)) <= Cardinality(Sent(ledger, a)) /\ Cardinality(Minute(ledger, a)) \in Nat
      BY <3>1, <3>2, FS_Subset, FS_CardinalityType
    <3>4. Cardinality(Sent(ledger, a)) <= MaxRate
      BY <1>4, <2>1, <2>2
    <3> QED BY <1>3, <3>2, <3>3, <3>4 DEF a
  <2>3. CASE ~(now - a < RateWindow)
    <3>1. i \in DOMAIN orders /\ orders[i].at = a
      BY <1>1, <1>2, <1>3, <2>3 DEF a
    <3>2. Cardinality(Minute(orders, a)) <= MaxRate
      BY <2>1, <3>1 DEF RateFits
    <3>3. Minute(ledger, a) = Minute(orders, a)
      <4>1. ~(ledger[n].at - a \in 0..(RateWindow - 1))
        BY <1>1, <1>2, <1>3, <2>1, <2>3
      <4> QED BY <1>1, <4>1 DEF Minute
    <3> QED BY <3>2, <3>3 DEF a
  <2> QED BY <2>2, <2>3
<1>7. \A j \in DOMAIN ledger : ledger[j].at <= now
  BY <1>1, <1>2 DEF RateFits
<1> QED BY <1>2, <1>5, <1>6, <1>7 DEF RateFits, ledger, more

RateInv == BrokerInv /\ RateFits(orders, recent, now)

LEMMA SubmitKeepsRate ==
    ASSUME Types, RateFits(orders, recent, now), NEW req \in Req, NEW rest, Submit(req, rest)
    PROVE  RateFits(orders', recent', now)
<1> DEFINE rejected == NewOrder(req, 0, 0, "REJECTED", -1)
           new == NewOrder(req, req.parent, req.group, "SUBMITTED", now)
<1>1. rejected \in Order /\ rejected.at = -1
  BY NewOrderFacts DEF OrderStates, Becomes
<1>2. new \in Order /\ new.at = now
  <2>1. req.parent \in Nat /\ req.group \in Nat /\ now \in Int /\ "SUBMITTED" \in OrderStates
    BY DEF Req, Types, OrderStates
  <2> QED BY <2>1, NewOrderFacts DEF Becomes
<1>3. recent \in Seq(Nat) /\ now \in Nat
  BY DEF RateFits, Types
<1>4. /\ Pruned \in Seq(Nat)
      /\ \A c \in Int : now - c < RateWindow => Since(recent, c) <= Since(Pruned, c)
  BY <1>3, PrunedFacts
<1>5. IdempotencyRefuses(req) => orders' = Append(orders, rejected) /\ recent' = Pruned
  BY DEF Submit, Reject
<1>6. ~IdempotencyRefuses(req) =>
          /\ recent' = Append(Pruned, now) /\ ~(Len(Pruned) >= MaxRate)
          /\ EvaluateOrderFill(Append(orders, new), Len(Append(orders, new)), FlatBar(req.price), rest)
  BY DEF Submit, IdempotencyRefuses
<1> DEFINE kept == Pruned
<1> HIDE DEF rejected, new, kept
<1>7. CASE IdempotencyRefuses(req)
  <2>1. RateFits(Append(orders, rejected), kept, now)
    BY <1>1, <1>4, RejectedKeepsRate DEF kept
  <2> QED BY <1>5, <1>7, <2>1 DEF kept
<1>8. CASE ~IdempotencyRefuses(req)
  <2> DEFINE ledger == Append(orders, new)
             k == Len(orders) + 1
  <2>1. ledger \in Seq(Order) /\ k \in DOMAIN ledger /\ Len(ledger) = k
    BY <1>2, AppendFacts
  <2>2. FlatBar(req.price) \in Bar
    BY DEF FlatBar, Bar, Req
  <2>3. EvaluateOrderFill(ledger, k, FlatBar(req.price), rest)
    BY <1>6, <1>8, <2>1
  <2>4. kept \in Seq(Nat) /\ Len(kept) < MaxRate
    <3>1. Len(kept) \in Nat /\ MaxRate \in Nat /\ kept \in Seq(Nat)
      BY <1>4, PaperBrokerConstants DEF kept
    <3> QED BY <1>6, <1>8, <3>1 DEF kept
  <2>5. RateFits(ledger, Append(kept, now), now)
    BY <1>2, <1>4, <2>4, AcceptedKeepsRate DEF kept
  <2> HIDE DEF ledger, k
  <2>6. Moved(ledger, orders')
    BY <2>1, <2>2, <2>3, EvaluateFacts, EvaluatedMoved
  <2> QED BY <1>6, <1>8, <2>5, <2>6, MovedKeepsRate DEF kept
<1> QED BY <1>7, <1>8

LEMMA RateNext ==
    ASSUME RateInv, [AdapterNext]_vars
    PROVE  RateFits(orders', recent', now')
<1>1. Types /\ FamilyInv /\ RateFits(orders, recent, now)
  BY DEF RateInv, BrokerInv, FamilyInv
<1>2. ASSUME Moved(orders, orders'), UNCHANGED <<recent, now>> PROVE RateFits(orders', recent', now')
  BY <1>1, <1>2, MovedKeepsRate
<1>3. ASSUME UNCHANGED orders PROVE Moved(orders, orders')
  <2>1. \A j \in DOMAIN orders : orders[j] \in Order
    BY <1>1 DEF Types
  <2> QED BY <1>3, <2>1 DEF Moved, SameOrder
<1>4. ASSUME Transmit \/ ProtectiveSubmit PROVE RateFits(orders', recent', now')
  <2>1. /\ call # <<>> /\ Head(call).task \in {"send", "protect"}
        /\ Submit(Head(call).req, Tail(call)) /\ now' = now
    BY <1>4 DEF Transmit, ProtectiveSubmit, Upcoming
  <2>2. Head(call).req \in Req
    BY <1>1, <2>1, HeadFacts
  <2> QED BY <1>1, <2>1, <2>2, SubmitKeepsRate
<1>5. ASSUME LookAt PROVE RateFits(orders', recent', now')
  <2> DEFINE i == Head(call).order
  <2>1. call # <<>> /\ Head(call).task = "look" /\ UNCHANGED <<recent, now>>
    BY <1>5 DEF LookAt, Upcoming, guards
  <2>2. Head(call).bar \in Bar /\ Head(call) = call[1] /\ 1 \in DOMAIN call
    BY <1>1, <2>1, HeadFacts
  <2>3. i \in DOMAIN orders
    BY <1>1, <2>1, <2>2 DEF FamilyInv, CallFits, TaskFits
  <2>4. CASE IsTerminal(orders[i])
    BY <1>2, <1>3, <1>5, <2>1, <2>4 DEF LookAt
  <2>5. CASE ~IsTerminal(orders[i])
    <3>1. EvaluateOrderFill(orders, i, Head(call).bar, Tail(call))
      BY <1>5, <2>5 DEF LookAt
    <3>2. orders \in Seq(Order)
      BY <1>1 DEF Types
    <3>3. Moved(orders, orders')
      BY <2>2, <2>3, <3>1, <3>2, EvaluateFacts, EvaluatedMoved
    <3> QED BY <1>2, <2>1, <3>3
  <2> QED BY <2>4, <2>5
<1>6. ASSUME PlaceOrder \/ PlaceOco \/ PlaceBracket \/ MarkPrice PROVE UNCHANGED <<orders, recent, now>>
  BY <1>1, <1>6, BeginFacts DEF guards
<1>7. ASSUME Refuse \/ FollowEntry \/ UNCHANGED vars PROVE UNCHANGED <<orders, recent, now>>
  BY <1>7 DEF Refuse, FollowEntry, vars, guards
<1>8. ASSUME \/ EngageKillSwitch
             \/ \E id \in KnownIds : CancelOrder(id) \/ \E a \in Amendments : ReplaceOrder(id, a)
      PROVE  Moved(orders, orders') /\ UNCHANGED <<recent, now>>
  BY <1>1, <1>8, AdapterFacts DEF Retires, Grows, Moved, guards
<1>9. ASSUME Tick PROVE RateFits(orders', recent', now')
  <2>1. now' = now + 1 /\ UNCHANGED <<orders, recent>>
    BY <1>9 DEF Tick, guards
  <2>2. now \in Nat /\ RateWindow \in Nat /\ \A j \in DOMAIN orders : orders[j].at \in Int
    <3>1. now \in Nat /\ \A j \in DOMAIN orders : orders[j] \in Order
      BY <1>1 DEF Types
    <3> QED BY <3>1, PaperBrokerConstants DEF Order
  <2>3. \A c \in Int : now + 1 - c < RateWindow => now - c < RateWindow
    BY <2>2
  <2>4. \A j \in DOMAIN orders : orders[j].at <= now + 1
    BY <1>1, <2>2 DEF RateFits
  <2> DEFINE t == now + 1
  <2>5. \A c \in Int : t - c < RateWindow => Cardinality(Sent(orders, c)) <= Since(recent, c)
    <3>1. \A c \in Int : now - c < RateWindow => Cardinality(Sent(orders, c)) <= Since(recent, c)
      BY <1>1 DEF RateFits
    <3>2. \A c \in Int : t - c < RateWindow => now - c < RateWindow
      BY <2>2 DEF t
    <3> HIDE DEF t
    <3> QED BY <3>1, <3>2
  <2>6. now' = t /\ \A j \in DOMAIN orders : orders[j].at <= t
    BY <2>1, <2>4
  <2> HIDE DEF t
  <2>7. RateFits(orders, recent, t)
    BY <1>1, <2>5, <2>6 DEF RateFits
  <2> QED BY <2>1, <2>6, <2>7
<1> QED BY <1>2, <1>3, <1>4, <1>5, <1>6, <1>7, <1>8, <1>9 DEF AdapterNext, Next

LEMMA RateAlways == AdapterSpec => []RateInv
<1>1. Init => RateInv
  <2> SUFFICES ASSUME Init PROVE RateInv
    OBVIOUS
  <2>1. BrokerInv /\ orders = <<>> /\ recent = <<>> /\ now = 0
    BY FamilyInit DEF Init, BrokerInv
  <2>2. RateFits(orders, recent, now)
    <3>1. recent \in Seq(Nat) /\ DOMAIN orders = {}
      BY <2>1
    <3>2. \A c \in Int : Sent(orders, c) = {}
      BY <3>1 DEF Sent
    <3>3. \A c \in Int : Since(recent, c) \in Nat
      BY <3>1, SinceFacts
    <3>4. \A c \in Int : Cardinality(Sent(orders, c)) <= Since(recent, c)
      <4> SUFFICES ASSUME NEW c \in Int PROVE Cardinality(Sent(orders, c)) <= Since(recent, c)
        OBVIOUS
      <4>1. Cardinality(Sent(orders, c)) = 0
        BY <3>2, FS_EmptySet
      <4> QED BY <3>3, <4>1
    <3> QED BY <3>1, <3>4 DEF RateFits
  <2> QED BY <2>1, <2>2 DEF RateInv
<1>2. RateInv /\ [AdapterNext]_vars => RateInv'
  <2> SUFFICES ASSUME RateInv, [AdapterNext]_vars PROVE RateInv'
    OBVIOUS
  <2>1. BrokerInv'
    BY FamilyNext, PositionStep DEF RateInv, BrokerInv
  <2> QED BY <2>1, RateNext DEF RateInv
<1> QED BY <1>1, <1>2, PTL DEF AdapterSpec

\* THEOREM.  However orders, groups, brackets and the kill switch are mixed, the broker
\* accepts no more than max_orders_per_minute orders in any minute.
THEOREM RateAlwaysCapped == AdapterSpec => []RateCapped
<1>1. RateInv => RateCapped
  <2> SUFFICES ASSUME RateInv, NEW i \in Accepted
               PROVE  Cardinality({j \in Accepted : orders[j].at - orders[i].at \in 0..(RateWindow - 1)}) <= MaxRate
    BY DEF RateCapped
  <2>1. i \in DOMAIN orders /\ orders[i].at >= 0
    BY DEF Accepted
  <2>2. {j \in Accepted : orders[j].at - orders[i].at \in 0..(RateWindow - 1)} = Minute(orders, orders[i].at)
    BY DEF Accepted, Minute
  <2> QED BY <2>1, <2>2 DEF RateInv, RateFits
<1> QED BY <1>1, RateAlways, PTL
=============================================================================
