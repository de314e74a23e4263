----------------------------- MODULE MCStartup -----------------------------
(***************************************************************************)
(* Configuration and roles files for Startup.                              *)
(***************************************************************************)
EXTENDS Startup

HS(c, s) == [chain |-> c, submitter |-> s, enabled |-> FALSE]

\* A file with one chain, ETH.
EthFile(e, d, first, second) ==
  [env |-> e, declared |-> [ETH |-> d],
   headerSync |-> [ETH |-> [s \in Slots |-> IF s = 0 THEN first ELSE second]]]

\* A file with the chains ETH and BSC.
TwoChainFile(e1, e2, b1, b2) ==
  [env |-> "mainnet", declared |-> [ETH |-> Nil, BSC |-> "BSC"],
   headerSync |->
     [ETH |-> [s \in Slots |-> IF s = 0 THEN e1 ELSE e2],
      BSC |-> [s \in Slots |-> IF s = 0 THEN b1 ELSE b2]]]

HeaderSyncs ==
  [chain : {"ETH", "TOP", Nil}, submitter : {"ETH", "TOP", "other", Nil},
   enabled : {TRUE}] \cup {Nil}

\* A file that has TOP among its chains, with header syncs switched on.
TopFile ==
  [env |-> "mainnet", declared |-> [TOP |-> Nil],
   headerSync |-> [TOP |-> [s \in Slots |->
     [chain |-> "ETH", submitter |-> "ETH", enabled |-> TRUE]]]]

\* All files with the chain ETH, and some with two chains or a mistake.
AllConfigs ==
  {EthFile("mainnet", Nil, a, b) : a, b \in HeaderSyncs}
  \cup {EthFile("testnet", Nil, Nil, Nil), TopFile,
        EthFile("mainnet", "BSC", HS("ETH", "ETH"), HS("ETH", "BSC")),
        TwoChainFile(HS("ETH", "ETH"), HS("ETH", "BSC"), HS("ETH", "BSC"), Nil),
        TwoChainFile(HS("ETH", "ETH"), HS("ETH", "BSC"),
                     HS("ETH", "ETH"), HS("ETH", "BSC")),
        TwoChainFile(HS("ETH", "ETH"), HS("TOP", "TOP"),
                     HS("TOP", "BSC"), HS("ETH", "BSC"))}

AllRoles ==
  {[ETH |-> TRUE], [ETH |-> FALSE], [BSC |-> TRUE],
   [TOP |-> TRUE, ETH |-> TRUE], [TOP |-> FALSE],
   [ETH |-> TRUE, BSC |-> TRUE],
   [ETH |-> TRUE, BSC |-> FALSE], [ETH |-> FALSE, BSC |-> TRUE],
   [TOP |-> FALSE, other |-> TRUE]}

\* A comment in ChainConfig says what the two header syncs of a chain are:
\* "0:chain -> ch -> top; 1: top -> ch -> chain".
DocumentedConfigs == {EthFile("mainnet", Nil, HS("ETH", "TOP"), HS("TOP", "ETH"))}

DocumentedRoles == {[ETH |-> TRUE], [TOP |-> TRUE, ETH |-> TRUE]}

=============================================================================
