----------------------------- MODULE MCAuction -----------------------------
(***************************************************************************)
(* Instances of AuctionHouse for TLC.  A unit of the token is two (WAD)    *)
(* smallest parts and a whole is ten parts in place of basis points, so    *)
(* that fills, limits and the collar all round on amounts below ten.       *)
(***************************************************************************)
EXTENDS AuctionHouse, TLC

CONSTANTS alice, bob, carol, s1, s2, usdg, nvda, opening, closing, tomorrow

Order(o, nonce, auctionKind, buy, kind, sell, min, dev) ==
  [owner |-> o, receiver |-> o, nonce |-> nonce, auctionKind |-> auctionKind, token |-> nvda,
   buy |-> buy, kind |-> kind, sellAmount |-> sell, minBuyAmount |-> min, maxDev |-> dev,
   validUntil |-> 20]

\* A market buyer, a limit seller, a relative seller; bob's two orders lie over
\* one balance.
AliceBuys   == Order(alice, 1, "OPEN", TRUE,  "MOO", 4, 0, 0)
BobLimit    == Order(bob,   1, "OPEN", FALSE, "LOO", 3, 3, 0)
BobRelative == [Order(bob,  2, "OPEN", FALSE, "ROO", 2, 0, 5) EXCEPT !.receiver = alice]
CarolBuys   == Order(carol, 1, "OPEN", TRUE,  "ROO", 3, 0, 2)

\* A seller whose limit is above the lower of two prices.
BobDear == Order(bob, 1, "OPEN", FALSE, "LOO", 3, 6, 0)
CrossIntents == {AliceBuys, BobDear, BobRelative}
ReturnIntents == {AliceBuys, BobLimit, CarolBuys}
\* Sold below its own ratio when the stored limit is rounded down.
RoundedIntents == {AliceBuys, Order(bob, 1, "OPEN", FALSE, "LOO", 3, 4, 0)}
\* The same pair on two days.
AliceUnit == Order(alice, 1, "CLOSE", TRUE,  "MOO", 1, 0, 0)
BobUnit   == Order(bob,   1, "CLOSE", FALSE, "LOO", 1, 1, 0)
TwoDayIntents == {AliceUnit, BobUnit, [AliceUnit EXCEPT !.nonce = 2], [BobUnit EXCEPT !.nonce = 2]}

Purse == [c \in {alice, bob, carol, s1, s2} |->
            CASE c = alice -> (usdg :> 4 @@ nvda :> 0)
              [] c = bob   -> (usdg :> 0 @@ nvda :> 4)
              [] c = carol -> (usdg :> 3 @@ nvda :> 0)
              [] OTHER     -> (usdg :> 4 @@ nvda :> 0)]
DeepPurse == [c \in {alice, bob, carol, s1, s2} |-> (usdg :> 8 @@ nvda :> 8)]

TokenOfAuction == [a \in Auctions |-> nvda]
Kinds   == [a \in Auctions |-> IF a = opening THEN "OPEN" ELSE "CLOSE"]
Times   == [a \in Auctions |-> CASE a = opening -> 2 [] a = closing -> 3 [] OTHER -> 5]
DayOf   == [a \in Auctions |-> IF a = tomorrow THEN 2 ELSE 1]

\* Bound: owners move and approve until the books are frozen; nothing reads
\* their balances and allowances after that.
OwnersEarly ==
  <<approved, movedOut>>' # <<approved, movedOut>> =>
    \E a \in Auctions : auctions[a].phase \in {"NONE", "DISCLOSURE"}

----------------------------------------------------------------------------
\* What the documents say of every execution, stated of the executed crosses.

\* The limit an owner signed is never broken: what a filled order received,
\* times the amount signed, is at least the minimum signed times what it sold
\* (invariant I1 of docs/rencana-uji.md, for commitAuctionIntent's _limitOf and
\* executeCross).
LimitNeverBroken ==
  \A i \in Escrowed : i.kind = "LOO" /\ PhaseOf(i) = "EXECUTED" =>
    commitments[i].filledBuy * i.sellAmount >= i.minBuyAmount * commitments[i].filledSell
=============================================================================
