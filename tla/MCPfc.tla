---- MODULE MCPfc ----
EXTENDS PfcProperties

MCOneWay == {<<1, 2>>}
MCPausableOut == {<<2, 2>>}

\* Entry 0 has no port and keeps the default of PGHeadroomLimit, rate * delay +
\* 2 * MTU of a link with 100Gbps and 1000ns; the other entries are set by the
\* driver.
MCLimit(port) == [p \in 0..NPorts |->
                    IF p = 0 THEN (MTU \div PeerTxTime) * Delay + 2 * MTU ELSE port]

\* rate * delay * 2 + 2 * MTU, as network-load-balance.cc configures it.
MCFormula == (MTU \div PeerTxTime) * Delay * 2 + 2 * MTU
MCConfigured == MCLimit(MCFormula)
MCTwoMore == MCLimit(MCFormula + 2 * MTU)
MCSmall == [p \in 0..NPorts |-> IF p = 0 THEN 3 ELSE 5]

\* HeadroomProofs speaks about the run with two MTU more.
ASSUME MCTwoMoreSuffices ==
    HdrmLimit = MCTwoMore => HeadroomAssumption /\ ReserveAssumption
====
