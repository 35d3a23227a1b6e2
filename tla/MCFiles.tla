------------------------------- MODULE MCFiles -------------------------------
(***************************************************************************)
(* Files on one printing the catalog names, one it names in a language     *)
(* ManaBox refuses, and one it does not know.                              *)
(***************************************************************************)
EXTENDS Files

ThePrinting ==
    [p1 |-> [name |-> "Opt", set |-> "xln", number |-> "65", rarity |-> "common", lang |-> "en",
             finishes |-> {"nonfoil", "foil"}, rank |-> 1],
     p2 |-> [name |-> "Shock", set |-> "m21", number |-> "7", rarity |-> "common", lang |-> "ph",
             finishes |-> {"nonfoil"}, rank |-> 2]]

Bare(print) ==
    [scryfallId |-> print, finish |-> "nonfoil", quantity |-> 1, condition |-> "", container |-> "",
     proxy |-> FALSE, tags |-> <<>>, note |-> "", createdAt |-> 2, updatedAt |-> 0, acquisitions |-> <<>>]

Lot(price, currency, at) ==
    [NoLot EXCEPT !.quantity = 1, !.price = price, !.currency = currency, !.at = at]

\* Everything a file may lose, one thing or a few at a time.
Some ==
    {[Bare("p2") EXCEPT !.condition = "nearMint", !.tags = <<<<"signed">>>>, !.proxy = TRUE],
     [Bare("p1") EXCEPT !.finish = "gilded"],
     [Bare("p1") EXCEPT !.tags = <<<<"trade", "cube">>>>, !.note = "bent"],
     [Bare("p1") EXCEPT !.quantity = 3, !.acquisitions = <<Lot("1.00", "GBP", 1), Lot("", "", 2)>>],
     [Bare("p1") EXCEPT !.acquisitions = <<Lot("1.00", "", 0)>>],
     [Bare("p1") EXCEPT !.acquisitions = <<[Lot("1.00", "GBP", 1) EXCEPT !.quantity = 2], Lot("2.50", "USD", 0)>>],
     [Bare("p1") EXCEPT !.acquisitions = <<[Lot("1.00", "GBP", 1) EXCEPT !.quantity = 2]>>],
     [Bare("p1") EXCEPT !.quantity = 2, !.acquisitions = <<Lot("1.00", "GBP", 1), [Lot("", "", 2) EXCEPT !.quantity = 3]>>]}

\* What no row can say again: a grade off the scale, more copies than a row may
\* count, a finish the printing never came in.
OffScale == [Bare("p1") EXCEPT !.condition = "worn"]
Foreign ==
    {OffScale, [Bare("p1") EXCEPT !.quantity = COPIES + 1], [Bare("p2") EXCEPT !.finish = "foil"]}

Boxed == [Bare("p1") EXCEPT !.container = "box", !.quantity = 2]
SomeGoods ==
    {[records |-> <<one>>, parts |-> <<>>] : one \in Some \cup Foreign}
    \cup {[records |-> <<Boxed, other>>, parts |-> <<>>] : other \in {Bare("p1"), [Boxed EXCEPT !.quantity = 4]}}
    \cup {[records |-> <<Bare("p1")>>, parts |-> <<Bare("p1"), Bare("p3")>>]}
ThePlaces == [box |-> "Box"]
SomeAdded == {Bare("p1")}

\* An export of ManaBox's own from before it had two of its columns, a row of
\* it no printing was made in; and a file that is no collection.
OldRow(print, finish, quantity) ==
    [column \in Columns(MANABOX) \ {"Signed", "Proxy"} |->
        CASE column = "Scryfall ID" -> print [] column = "Foil" -> finish [] column = "Quantity" -> quantity
          [] column \in {"Altered", "Misprint"} -> FALSE [] column = "Added" -> 1
          [] column = "Purchase price" -> "1.00" [] column = "Purchase price currency" -> "GBP"
          [] OTHER -> ""]
SomeStrangers ==
    {[head |-> Columns(MANABOX) \ {"Signed", "Proxy"},
      rows |-> <<OldRow("p1", "normal", 2), OldRow("p2", "foil", 1), OldRow("p1", "normal", 3)>>],
     [head |-> {"Title"}, rows |-> <<>>]}

\* Reading what was written gives it back, cell by cell, whatever characters
\* the cells hold (csv.ts of import and of export).
Cells == UNION {[1 .. n -> {"a", COMMA, QUOTE, CR, LF}] : n \in 0 .. 2}
ASSUME CsvRoundTrip ==
    \A one, other \in Cells : one # <<>> \/ other # <<>> =>
       Parse(WriteText(<<<<one, other>>, <<other>>>>)) = <<<<one, other>>, <<other>>>>
=============================================================================
