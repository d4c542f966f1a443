---------------------------- MODULE OfferCharges ----------------------------
(* The check of an offer snapshot's charges.  The configurator declares delivery, *)
(* dishware, buffet and return charges once and puts one position per charge into *)
(* each variant; the Core compares the two before it stores the snapshot.  Every  *)
(* other position, a fee of another name among them, is taken as it is; so is a   *)
(* snapshot without a declaration, which is left out.  A pure function of its     *)
(* input: one action puts in an offer, the reference definition is the list of    *)
(* positions the declaration stands for.                                          *)
EXTENDS Integers, Sequences, FiniteSets, SequencesExt

CONSTANTS
    LineNames,          \* descriptions of additional dishware lines
    Units,              \* cents per piece or person
    Fee,                \* cents of the delivery and of the pickup on the same day
    MaxPositions        \* bound: positions put in, and declared lines less one

ASSUME ChargeBounds == Units \subseteq Nat /\ Fee \in Nat /\ MaxPositions \in Nat

NoGuests == 0
NotPut == [verdict |-> "none"]

\* Kinds: delivery, dishware, buffet_fee and fee, which stands for custom positions and
\* for dishes too; modes: total and per_person.
Position(kind, mode, name, quantity, unit, net) ==
    [kind |-> kind, mode |-> mode, name |-> name, quantity |-> quantity,
     unit |-> unit, net |-> net]

DishwareLines == [name : LineNames, quantity : {1, 2}, unit : Units]
Heads(guests, mode) == IF mode = "per_person" THEN guests ELSE 1

\* A position's net total, and that a position per person needs a number of guests.
PositionAdds(p, guests) ==
    /\ p.mode = "per_person" => guests # NoGuests
    /\ p.net = p.unit * p.quantity * Heads(guests, p.mode)

\* The fee for the pickup on the day of the event is known by its name alone.
PickupName == "pickup"
ComparedAs(p) == IF p.kind = "fee" /\ p.name = PickupName THEN "return" ELSE p.kind

IndicesOf(kind, ps) == {i \in DOMAIN ps : ComparedAs(ps[i]) = kind}

\* One position of the kind, with the amount; or none.
OneWith(kind, net, ps) ==
    /\ Cardinality(IndicesOf(kind, ps)) = 1
    /\ \A i \in IndicesOf(kind, ps) : ps[i].net = net
NoneOf(kind, ps) == IndicesOf(kind, ps) = {}

DeliveryAgrees(d, ps) == OneWith("delivery", d.delivery, ps)

BuffetAgrees(d, ps, guests) ==
    IF d.buffet THEN guests # NoGuests /\ OneWith("buffet_fee", guests * d.buffetUnit, ps)
    ELSE NoneOf("buffet_fee", ps)

ReturnAgrees(d, ps) ==
    IF ~ d.sameDay THEN NoneOf("return", ps)
    ELSE /\ OneWith("return", d.returnFee, ps)
         /\ \A i \in IndicesOf("return", ps) :
              ps[i].mode = "total" /\ ps[i].quantity = 1 /\ ps[i].unit = d.returnFee

\* Only the amount is compared.
FitsByAmount(p, line) == p.net = line.quantity * line.unit

Fits(p, line) ==
    /\ p.name = line.name /\ p.quantity = line.quantity
    /\ p.unit = line.unit /\ p.net = line.quantity * line.unit

NoMatch == {0}

\* What is left of the positions of a total when each line has taken the one position
\* it fits; NoMatch when a line fits none or more than one.
LinesTake(lines, ps) ==
    LET left[n \in 0..Len(lines)] ==
            IF n = 0 THEN {i \in IndicesOf("dishware", ps) : ps[i].mode = "total"}
            ELSE LET hits == {i \in left[n - 1] \ NoMatch : Fits(ps[i], lines[n])}
                 IN  IF left[n - 1] = NoMatch \/ Cardinality(hits) # 1 THEN NoMatch
                     ELSE left[n - 1] \ hits
    IN  left[Len(lines)]

DishwareAgrees(d, ps, guests) ==
    LET flat == {i \in IndicesOf("dishware", ps) : ps[i].mode = "per_person"}
    IN  /\ LinesTake(d.lines, ps) = {}
        /\ IF d.flat
           THEN /\ guests # NoGuests
                /\ Cardinality(flat) = 1
                /\ \A i \in flat : ps[i].quantity = 1 /\ ps[i].unit = d.flatUnit
           ELSE flat = {}

Accepts(d, ps, guests) ==
    /\ \A i \in DOMAIN ps : PositionAdds(ps[i], guests)
    /\ DeliveryAgrees(d, ps) /\ DishwareAgrees(d, ps, guests)
    /\ BuffetAgrees(d, ps, guests) /\ ReturnAgrees(d, ps)

VARIABLE offered        \* the snapshot put in last, and the verdict

chargeVars == <<offered>>

\* What may be put in: dishware positions that add up, two of one piece or person
\* among them that come to the same total; the other charges, right and wrong, and fees
\* nothing declares.
DishwarePositions(guests) ==
    {Position("dishware", mode, n, q, u, u * q * Heads(guests, mode)) :
       mode \in {"total", "per_person"}, n \in LineNames, q \in {1, 2}, u \in Units}

OtherPositions(guests) ==
    {Position(other[1], mode, other[2], 1, u, u * Heads(guests, mode)) :
       other \in {<<"delivery", "other">>, <<"buffet_fee", "other">>,
                 <<"fee", PickupName>>, <<"fee", "other">>},
       mode \in {"total", "per_person"}, u \in {Fee, 2 * Fee}}

PutIn(d, guests, ps) ==
    offered' = [declared |-> d, guests |-> guests, positions |-> ps,
                verdict |-> IF Accepts(d, ps, guests) THEN "accepted" ELSE "refused"]

Declared(lines, flat, buffet, sameDay) ==
    [delivery |-> Fee, lines |-> lines, flat |-> flat, flatUnit |-> Fee,
     buffet |-> buffet, buffetUnit |-> Fee, sameDay |-> sameDay, returnFee |-> Fee]

ChargesInit == offered = NotPut

ChargesNext ==
    /\ offered = NotPut
    /\ \E guests \in {NoGuests, 2} :
        \/ \E lines \in SeqOf(DishwareLines, MaxPositions - 1), flat \in BOOLEAN,
              ps \in SeqOf(DishwarePositions(guests), MaxPositions) :
             PutIn(Declared(lines, flat, FALSE, FALSE), guests,
                   ps \o <<Position("delivery", "total", "other", 1, Fee, Fee)>>)
        \/ \E buffet, sameDay \in BOOLEAN, ps \in SeqOf(OtherPositions(guests), MaxPositions) :
             PutIn(Declared(<<>>, FALSE, buffet, sameDay), guests, ps)

ChargesSpec == ChargesInit /\ [][ChargesNext]_chargeVars

\* The reference: the charges a declaration stands for, and those of its kinds a variant
\* has, with what is not compared left out.
Charge(kind, name, quantity, unit, amount) ==
    [kind |-> kind, name |-> name, quantity |-> quantity, unit |-> unit, amount |-> amount]

DeliveryCharge(d) == Charge("delivery", "any", 1, 0, d.delivery)
DishwareCharge(line) ==
    Charge("dishware", line.name, line.quantity, line.unit, line.quantity * line.unit)
FlatCharge(d, guests) == Charge("flat", "any", 1, d.flatUnit, guests * d.flatUnit)
BuffetCharge(d, guests) == Charge("buffet_fee", "any", 1, 0, guests * d.buffetUnit)
ReturnCharge(d) == Charge("return", "any", 1, 0, d.returnFee)

DeclaredList(d, guests) ==
       <<DeliveryCharge(d)>>
    \o [n \in 1..Len(d.lines) |-> DishwareCharge(d.lines[n])]
    \o (IF d.flat THEN <<FlatCharge(d, guests)>> ELSE <<>>)
    \o (IF d.buffet THEN <<BuffetCharge(d, guests)>> ELSE <<>>)
    \o (IF d.sameDay THEN <<ReturnCharge(d)>> ELSE <<>>)

DeclaredCharges(d, guests) == ToBag(DeclaredList(d, guests))

ChargeSeen(p) ==
    IF ComparedAs(p) # "dishware" THEN Charge(ComparedAs(p), "any", 1, 0, p.net)
    ELSE IF p.mode = "per_person" THEN Charge("flat", "any", p.quantity, p.unit, p.net)
    ELSE Charge("dishware", p.name, p.quantity, p.unit, p.net)

ComparedKinds == {"delivery", "dishware", "buffet_fee", "return"}
Compared(ps) == {i \in DOMAIN ps : ComparedAs(ps[i]) \in ComparedKinds}

SeenCharges(ps) == ToBag([i \in Compared(ps) |-> ChargeSeen(ps[i])])

\* Of the kinds a declaration speaks of, an accepted variant has the declared charges, each
\* as often as declared, and no other: matching line by line never lets two lines share a
\* position nor one stand for another that comes to the same amount.
AcceptedIsDeclared ==
    offered.verdict = "accepted" =>
        SeenCharges(offered.positions) = DeclaredCharges(offered.declared, offered.guests)

\* Refused is only what is wrong in those kinds, with one exception: of two equal lines
\* neither can be told from the other, so an offer that declares the same line twice is
\* refused.  A fee nothing declares is no reason.
OnlyTwinsAreRefused ==
    offered.verdict = "refused" =>
        \/ SeenCharges(offered.positions) # DeclaredCharges(offered.declared, offered.guests)
        \/ ~ IsInjective(offered.declared.lines)
        \/ \E p \in Range(offered.positions) :
             ~ PositionAdds(p, offered.guests) \/ (ComparedAs(p) = "return" /\ p.mode # "total")
        \/ (offered.guests = NoGuests) /\ (offered.declared.flat \/ offered.declared.buffet)

\* The verdict about the charges a declaration speaks of is right both ways.
ChargesAreDeclared == AcceptedIsDeclared /\ OnlyTwinsAreRefused

=============================================================================
