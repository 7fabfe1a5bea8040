--------------------------- MODULE MCComputations ---------------------------
EXTENDS Computations, TLC

\* Small numbers that keep the order and the remainders of the real ones: the priority fee
\* of a native transfer does not divide evenly (450 units at 10000 micro-lamports), that of
\* a token transfer does; a token's unit is one, two or all of the smallest parts.
MCUnitLimit == [native |-> 3, token |-> 4]
MCSituations ==
  {s \in [kind : {"native", "token"}, lamports : 0..14, balance : 0..14, unit : {1, 2, 4},
          newcomer : BOOLEAN, feeKnown : BOOLEAN] :
     IF s.kind = "native" THEN s.balance = s.lamports /\ s.unit = 1
     ELSE s.balance % s.unit = 0}
MCTyped == 0..24

MCMessages ==
  [feePayer : {Unset, "other"}, lifetime : {Unset, "nonce", "blockhash"},
   instructions : UNION {[1..n -> [kind : {"limit", "price", "transfer"}, value : {1, 2}]] :
                           n \in 0..3}]
MCEstimates == [what : {"estimated", "simulationFailed", "error"}, units : {3, 4}]

MCPriceTables == [{"t1", "t2", "usd", "eur"} -> 0..2]
MCSpotData == {<<>>} \cup [cap : {<<>>} \cup {<<n, 1>> : n \in {0, 2, 4}}, supply : 0..2]

MCDecimals == [m |-> 6]

\* The account u pays or another does, two accounts and a pool exchange lamports, and the
\* token accounts 4 (of u) and 5 (of v) change, appear or are closed.
Balances(index, owner, amount) ==
  IF amount = 0 THEN {}
  ELSE {[index |-> index, mint |-> "m", owner |-> owner, amount |-> amount]}
InstructionLists ==
  {<<>>}
  \cup {<<[program |-> "system", accounts |-> a, opcode |-> o, amount |-> 1]>> :
          a \in {<<1, 1>>, <<2, 2>>, <<1, 2>>}, o \in {2, 4}}
  \cup {<<[program |-> "token", accounts |-> a, opcode |-> 3, amount |-> 1]>> :
          a \in {<<4, 4, 1>>, <<4, 3, 4, 1, 1>>}}
Transaction(failed, fee, payer, second, change, before, after, instructions) ==
  [failed |-> failed, signatures |-> 1, fee |-> fee,
   keys |-> IF payer = "u" THEN <<"u", "v", "pool", "t4", "t5">>
                           ELSE <<"v", "u", "pool", "t4", "t5">>,
   static |-> 5, owners |-> <<"none", "none", "none", "u", second>>,
   pre |-> <<9, 9, 9, 9, 9>>,
   post |-> <<9 + change[1] - fee, 9 + change[2], 9 - change[1] - change[2], 9, 9>>,
   tokensPre |-> before, tokensPost |-> after, instructions |-> instructions]
MCChainTransactions ==
  {Transaction(FALSE, fee, payer, second, change, Balances(4, owner, a) \cup Balances(5, second, 1),
               Balances(4, owner, b) \cup Balances(5, second, c), instructions) :
     fee \in {1, 2}, payer \in {"u", "v"}, second \in {"u", "v"}, change \in (-2..2) \X (-2..2), a \in 0..2, b \in 0..2,
     c \in {0, 2}, owner \in {"u", NoOwner}, instructions \in InstructionLists}
  \cup
  {Transaction(TRUE, fee, payer, "v", <<0, 0>>, Balances(4, "u", a), Balances(4, "u", a),
               instructions) :
     fee \in {1, 2}, payer \in {"u", "v"}, a \in 0..2, instructions \in InstructionLists}

\* Two accounts, one of them without a network and the other without a method; messages of
\* up to two characters, sign-ins with each line alone.
Methods == {"signIn", "signMessage", "signTransaction", "signAndSendTransaction"}
MCAccounts ==
  {[address |-> "u", scopes |-> {"main"}, methods |-> Methods],
   [address |-> "v", scopes |-> {"main", "dev"}, methods |-> Methods \ {"signTransaction"}]}
MCLines ==
  {[i \in 1..8 |-> IF i = k THEN <<c>> ELSE <<>>] : k \in 0..8, c \in {"l", "null"}}
MCSignIns ==
  [domain : {<<>>, <<"d">>, <<"bom", "d">>}, statement : {<<>>, <<"s">>, <<"s", "null">>},
   lines : MCLines, resources : {<<>>, <<<<"r">>, <<"q">>>>}]
MCAsked ==
  [method : Methods \ {"signIn"}, address : {<<"u">>, <<"v">>, <<"w">>},
   scope : {<<>>, <<"main">>, <<"dev">>},
   payload : UNION {[1..n -> {"c", "null", "bom", "bad"}] : n \in 0..2}]
  \cup [method : {"signIn"}, address : {<<>>, <<"u">>, <<"v">>, <<"w">>}, scope : {<<>>},
        payload : MCSignIns]

\* A scan of no change, of one of any kind, or of two.
In == [in |-> <<1>>, out |-> <<>>]
Out == [in |-> <<>>, out |-> <<1>>]
Both == [in |-> <<1>>, out |-> <<2>>]
MCScanAnswers ==
  [answer : {"scan"}, status : {"SUCCESS", "ERROR", "other"},
   diff : {<<>>, <<In>>, <<Out>>, <<Both>>, <<In, Out>>},
   verdict : {"none", "Warning", "Malicious"}, error : BOOLEAN]
  \cup [answer : {"failed", "nothing"}]

\* Every instruction there is a table for, alone; some in pairs.
MCInstructions ==
  UNION {[program : {p}, kind : View!Kinds[p] \cup {"Unknown"}, complete : BOOLEAN] :
           p \in DOMAIN View!Kinds}
  \cup [program : {"other"}, kind : {"Unknown"}, complete : {TRUE}]
Paired == {i \in MCInstructions : i.complete /\ i.kind \in {"Transfer", "TransferSol", "Unknown"}}
MCHanded ==
  [as : {"transaction", "message", "neither"}, lookups : BOOLEAN,
   instructions : {<<>>} \cup [1..1 -> MCInstructions] \cup [1..2 -> Paired]]

Symmetry == Permutations(PriceCalls)
=============================================================================
