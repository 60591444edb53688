-------------------------- MODULE MCPaymentImport --------------------------
(* Files of one message id: a sound one that draws on two accounts, one     *)
(* whose first payment cannot be read, one whose header declares its last   *)
(* block alone, and a mixed one: its second payment is finer than a cent,   *)
(* and its third has, by the '|' in its ids, the reference of the first.    *)
EXTENDS PaymentImport, TLC

CONSTANTS c1, c2

MCSources == {"source", "other"}
Input == [map |-> [d \in {"debtor", "second"} |-> IF d = "debtor" THEN "source" ELSE "other"],
          default |-> None]
MCBarred == "b|1" :> <<"b", "1">> @@ "3|x" :> <<"3", "x">>

Creditor(name) == [name |-> name, country |-> None, iban |-> "DE", other |-> FALSE,
                   sortCode |-> FALSE, lines |-> FALSE]
Tx(amount, name, instr) == [instr |-> instr, e2e |-> "NOTPROVIDED", amount |-> amount, currency |-> "EUR",
                     creditor |-> Creditor(name), sepa |-> TRUE, bearer |-> "SLEV", schema |-> TRUE]
Cents(n) == Text(n, 2)
Cent == Cents(1)

Block(id, txs, sum) == [id |-> id, method |-> "TRF", count |-> Absent, sum |-> sum,
                    debtor |-> "debtor", date |-> Text(0, 0), txs |-> txs]
Message(blocks, count, sum) == [id |-> "m", created |-> Text(0, 0), count |-> Text(count, 0), sum |-> sum,
                                party |-> TRUE, blocks |-> blocks]
Upload(m, atomic) == [message |-> m, input |-> Input, atomic |-> atomic]

Sound   == Message(<<Block("b", <<Tx(Cent, "x", "3|x")>>, Cent),
                     [Block("b", <<Tx(Cents(3), "x", None)>>, Cents(3)) EXCEPT !.debtor = "second"]>>,
                   2, Text(40, 3))
Partial == Message(<<Block("b", <<Tx(Malformed, "x", None), Tx(Cent, "x", None)>>, Absent)>>, 2, Cent)
Short   == Message(<<Block("b", <<Tx(Cent, "x", None)>>, Cent), Block("b", <<Tx(Cent, "x", None)>>, Cent)>>, 1, Cent)
Mixed   == Message(<<Block("b", <<Tx(Cent, "x", "3|x"), Tx(Text(15, 3), "x", None)>>, Absent),
                     Block("b|1", <<Tx(Cent, "y", "x"), Tx(Cents(2), "x", None)>>, Absent)>>, 4, Text(55, 3))

MCUploads == {"sound", "partial", "short", "mixed"}
MCFile == [u \in MCUploads |->
  CASE u = "sound" -> Upload(Sound, TRUE) [] u = "partial" -> Upload(Partial, TRUE)
    [] u = "short" -> Upload(Short, FALSE) [] u = "mixed" -> Upload(Mixed, FALSE)]

\* A payment that was entered by hand, under the reference of one of them.
Manual == [Request(Mixed, 4, Input) EXCEPT !.name = "y"]
MCPayments ==
  {Manual} \cup UNION {{Request(m, i, Input) : i \in ValidPayments(m, Input, 0)} :
                       m \in {Sound, Partial, Short, Mixed}}
MCBatches == {<<Manual>>}

\* Payments by hand alone, two of them under one reference.
Manual2 == [Manual EXCEPT !.amount = 2]
MCByHand == {Manual, Manual2}
MCOneReference == {<<Manual>>, <<Manual2>>}

Alike == Permutations({c1, c2})

=============================================================================
