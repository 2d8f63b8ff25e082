---------------------------- MODULE MCPaperBroker ----------------------------
\* Small instances of PaperBroker: one order of each kind, prices on three
\* levels, a bracket and an OCO pair around the middle level.
EXTENDS PaperAdapter

Template(type, side, qty, limit, stop, trail) ==
    [type |-> type, side |-> side, qty |-> qty,
     limit |-> limit, stop |-> stop, trail |-> trail]

MCPrices == 1..3

MCSingles == {Template("market", "sell", 2, 0, 0, 0),
              Template("stop_limit", "buy", 1, 2, 3, 0)}

MCOcoGroups == {<<Template("limit", "sell", 1, 3, 0, 0),
                 Template("trailing_stop", "sell", 1, 0, 0, 1)>>}

MCBrackets == {[entry |-> Template("limit", "buy", 2, 2, 0, 0),
                takeProfit |-> 3, stopLoss |-> 1]}

None == {}

EdgeBars == {FlatBar(1), FlatBar(3), [high |-> 3, low |-> 1, close |-> 2]}

WideBars == {FlatBar(3), [high |-> 3, low |-> 1, close |-> 2]}

MCAmendments == {[qty |-> 0, limit |-> 0, stop |-> 2]}
=============================================================================
